---- MODULE Spec2Model ----
(***************************************************************************)
(* A model of src/src/lib/parser.ts: the Lexer, the recursive-descent      *)
(* Parser, the pure evaluator (evaluateAST) and the tree-walking           *)
(* Interpreter (executeProgram).                                           *)
(*                                                                         *)
(* Representation.  A JavaScript string is a sequence of one-character     *)
(* strings, so that the lexer can index it.  A JavaScript number is an     *)
(* exact rational [t |-> "num", n, d]; null, undefined, NaN and the two    *)
(* infinities are records of their own.  An object is a record holding     *)
(* the fields that were assigned a value other than undefined; Get reads   *)
(* a field the way JavaScript does (undefined when it is absent).          *)
(***************************************************************************)
EXTENDS Integers, Sequences, FiniteSets, TLC

VARIABLES
    source,        \* the text handed to the entry point (a sequence of characters)
    input,         \* Lexer.input: the trimmed text
    position,      \* Lexer.position
    tokens,        \* the token list under construction in Lexer.tokenize
    lexpc,         \* where Lexer.tokenize is: "idle", "scan", "done"
    parsepc,       \* where the parse/evaluate handler is: "idle", "start", "parsed", "evaluated"
    parseResult,   \* the ParseResult returned by parseExpression
    evalResult,    \* the outcome of evaluateAST on the parsed tree
    evaluationData, \* Index.evaluationData: what handleParse reports for the expression
    tree,          \* the AST handed to executeProgram
    variables,     \* Interpreter.variables
    functions,     \* Interpreter.functions
    output,        \* Interpreter.output
    returnValue,   \* Interpreter.returnValue
    breakFlag,     \* Interpreter.breakFlag
    continueFlag,  \* Interpreter.continueFlag
    ctl,           \* the interpreter's control: the node being interpreted or the value returned
    kont,          \* the interpreter's pending interpretNode/callFunction activations
    execResult     \* the ExecutionResult returned by execute

vars == << source, input, position, tokens, lexpc, parsepc, parseResult, evalResult,
           evaluationData,
           tree, variables, functions, output, returnValue, breakFlag, continueFlag,
           ctl, kont, execResult >>

lexVars == << input, position, tokens, lexpc >>
parseVars == << parsepc, parseResult, evalResult, evaluationData >>
execVars == << tree, variables, functions, output, returnValue, breakFlag, continueFlag,
               ctl, kont, execResult >>

(***************************************************************************)
(* Bounds of the model.                                                    *)
(***************************************************************************)
MaxLexLen == 3

(***************************************************************************)
(* Characters.                                                             *)
(***************************************************************************)
Digit == {"0", "1", "2", "3", "4", "5", "6", "7", "8", "9"}

Letter == {"a", "b", "c", "d", "e", "f", "g", "h", "i", "j", "k", "l", "m",
           "n", "o", "p", "q", "r", "s", "t", "u", "v", "w", "x", "y", "z",
           "A", "B", "C", "D", "E", "F", "G", "H", "I", "J", "K", "L", "M",
           "N", "O", "P", "Q", "R", "S", "T", "U", "V", "W", "X", "Y", "Z", "_"}

Whitespace == {" ", "\t", "\n", "\r"}

\* input[p] with a 0-based index; past the end JavaScript yields undefined,
\* which equals no character: the empty string stands for it.
At(inp, p) == IF p >= 0 /\ p < Len(inp) THEN inp[p + 1] ELSE ""

\* s.substring(from, to) with 0-based from (inclusive) and to (exclusive).
Slice(inp, from, to) == SubSeq(inp, from + 1, to)

RECURSIVE TrimLeft(_)
TrimLeft(s) == IF s # << >> /\ Head(s) \in Whitespace THEN TrimLeft(Tail(s)) ELSE s

RECURSIVE TrimRight(_)
TrimRight(s) ==
    IF s # << >> /\ s[Len(s)] \in Whitespace THEN TrimRight(SubSeq(s, 1, Len(s) - 1)) ELSE s

Trim(s) == TrimRight(TrimLeft(s))

(***************************************************************************)
(* The Lexer.                                                              *)
(***************************************************************************)
keywords == {
    <<"i","n","t">>, <<"f","l","o","a","t">>, <<"c","h","a","r">>, <<"v","o","i","d">>,
    <<"i","f">>, <<"e","l","s","e">>, <<"w","h","i","l","e">>, <<"f","o","r">>,
    <<"r","e","t","u","r","n">>, <<"b","r","e","a","k">>,
    <<"c","o","n","t","i","n","u","e">>, <<"s","t","r","u","c","t">>,
    <<"c","o","n","s","t">>, <<"d","o">>, <<"s","w","i","t","c","h">>,
    <<"c","a","s","e">>, <<"d","e","f","a","u","l","t">>, <<"d","o","u","b","l","e">>,
    <<"l","o","n","g">>, <<"s","h","o","r","t">>, <<"u","n","s","i","g","n","e","d">>,
    <<"s","i","g","n","e","d">>, <<"s","i","z","e","o","f">>, <<"s","t","a","t","i","c">>,
    <<"e","x","t","e","r","n">>, <<"a","u","t","o">>, <<"r","e","g","i","s","t","e","r">>,
    <<"e","n","u","m">>, <<"u","n","i","o","n">>, <<"t","y","p","e","d","e","f">>,
    <<"v","o","l","a","t","i","l","e">>, <<"g","o","t","o">> }

Token(type, value, pos) == [type |-> type, value |-> value, position |-> pos]

\* The first position at or after p that holds a newline, or the end of the input.
RECURSIVE ScanToNewline(_, _)
ScanToNewline(inp, p) ==
    IF p < Len(inp) /\ At(inp, p) # "\n" THEN ScanToNewline(inp, p + 1) ELSE p

\* The loop of the multi-line comment branch, entered after the opening /*.
RECURSIVE SkipBlockComment(_, _)
SkipBlockComment(inp, p) ==
    IF p < Len(inp) - 1
    THEN IF At(inp, p) = "*" /\ At(inp, p + 1) = "/"
         THEN p + 2
         ELSE SkipBlockComment(inp, p + 1)
    ELSE p

RECURSIVE ScanIdentifier(_, _)
ScanIdentifier(inp, p) ==
    IF p < Len(inp) /\ At(inp, p) \in (Letter \cup Digit)
    THEN ScanIdentifier(inp, p + 1)
    ELSE p

readIdentifier(inp, start) ==
    LET end == ScanIdentifier(inp, start)
        identifier == Slice(inp, start, end)
        type == IF identifier \in keywords THEN "KEYWORD" ELSE "IDENTIFIER"
    IN  [pos |-> end, tok |-> Token(type, identifier, start)]

RECURSIVE ScanNumber(_, _, _)
ScanNumber(inp, p, hasDot) ==
    IF p < Len(inp)
    THEN IF At(inp, p) \in Digit THEN ScanNumber(inp, p + 1, hasDot)
         ELSE IF At(inp, p) = "." /\ ~hasDot THEN ScanNumber(inp, p + 1, TRUE)
         ELSE p
    ELSE p

readNumber(inp, start) ==
    LET end == ScanNumber(inp, start, FALSE)
    IN  [pos |-> end, tok |-> Token("NUMBER", Slice(inp, start, end), start)]

\* A variant of the loop of readString that consumes a backslash and the character
\* after it without looking whether that character exists.
RECURSIVE ReadStringBodyUnchecked(_, _, _)
ReadStringBodyUnchecked(inp, p, str) ==
    IF p < Len(inp) /\ At(inp, p) # "\""
    THEN IF At(inp, p) = "\\"
         THEN ReadStringBodyUnchecked(inp, p + 2,
                  str \o << At(inp, p) >> \o (IF p + 1 < Len(inp) THEN << At(inp, p + 1) >> ELSE << >>))
         ELSE ReadStringBodyUnchecked(inp, p + 1, Append(str, At(inp, p)))
    ELSE [pos |-> p, str |-> str]

\* The loop of readString: the characters up to the closing quote, a backslash
\* and the character after it taken together.
RECURSIVE ReadStringBody(_, _, _)
ReadStringBody(inp, p, str) ==
    IF p < Len(inp) /\ At(inp, p) # "\""
    THEN IF At(inp, p) = "\\" /\ p + 1 < Len(inp)
         THEN ReadStringBody(inp, p + 2, str \o << At(inp, p), At(inp, p + 1) >>)
         ELSE ReadStringBody(inp, p + 1, Append(str, At(inp, p)))
    ELSE [pos |-> p, str |-> str]

readString(inp, start) ==
    LET body == ReadStringBody(inp, start + 1, << "\"" >>)
        closed == body.pos < Len(inp) /\ At(inp, body.pos) = "\""
    IN  [pos |-> IF closed THEN body.pos + 1 ELSE body.pos,
         tok |-> Token("STRING", IF closed THEN Append(body.str, "\"") ELSE body.str, start)]

\* The loop of readChar: the characters up to the closing quote.
RECURSIVE ReadCharBody(_, _, _)
ReadCharBody(inp, p, ch) ==
    IF p < Len(inp) /\ At(inp, p) # "'"
    THEN ReadCharBody(inp, p + 1, Append(ch, At(inp, p)))
    ELSE [pos |-> p, str |-> ch]

readChar(inp, start) ==
    LET body == ReadCharBody(inp, start + 1, << "'" >>)
        closed == body.pos < Len(inp) /\ At(inp, body.pos) = "'"
    IN  [pos |-> IF closed THEN body.pos + 1 ELSE body.pos,
         tok |-> Token("CHAR", IF closed THEN Append(body.str, "'") ELSE body.str, start)]

Delimiters == {"(", ")", "[", "]", "{", "}", ";", ",", "."}

DelimiterType(c) ==
    CASE c = "(" -> "LPAREN"   [] c = ")" -> "RPAREN"
      [] c = "[" -> "LBRACKET" [] c = "]" -> "RBRACKET"
      [] c = "{" -> "LBRACE"   [] c = "}" -> "RBRACE"
      [] c = ";" -> "SEMICOLON" [] c = "," -> "COMMA"
      [] c = "." -> "DOT"

Emit(branch, p, tok) == [branch |-> branch, pos |-> p, toks |-> << tok >>]
Skip(branch, p) == [branch |-> branch, pos |-> p, toks |-> << >>]

\* One iteration of the while loop of Lexer.tokenize at position p < Len(inp):
\* the branch taken, the position it leaves and the tokens it pushes.
LexStep(inp, p) ==
    LET char == At(inp, p)
        next == At(inp, p + 1)
        two(type) == Emit(type, p + 2, Token(type, << char, next >>, p))
        one(type) == Emit(type, p + 1, Token(type, << char >>, p))
    IN  IF char \in Whitespace THEN Skip("whitespace", p + 1)
        ELSE IF char = "#"
             THEN LET end == ScanToNewline(inp, p)
                  IN  Emit("PREPROCESSOR", end, Token("PREPROCESSOR", Slice(inp, p, end), p))
        ELSE IF char = "\"" THEN LET r == readString(inp, p) IN Emit("STRING", r.pos, r.tok)
        ELSE IF char = "'" THEN LET r == readChar(inp, p) IN Emit("CHAR", r.pos, r.tok)
        ELSE IF char = "/" /\ next = "/" THEN Skip("line_comment", ScanToNewline(inp, p))
        ELSE IF char = "/" /\ next = "*" THEN Skip("block_comment", SkipBlockComment(inp, p + 2))
        ELSE IF char \in Digit THEN LET r == readNumber(inp, p) IN Emit("NUMBER", r.pos, r.tok)
        ELSE IF char \in Letter
             THEN LET r == readIdentifier(inp, p) IN Emit(r.tok.type, r.pos, r.tok)
        ELSE IF char = "+" /\ next = "+" THEN two("INCREMENT")
        ELSE IF char = "-" /\ next = "-" THEN two("DECREMENT")
        ELSE IF char \in {"+", "-", "*", "/", "%"} /\ next = "=" THEN two("COMPOUND_ASSIGN")
        ELSE IF char = "-" /\ next = ">" THEN two("ARROW")
        ELSE IF char \in {"=", "!", "<", ">"} /\ next = "=" THEN two("COMPARISON")
        ELSE IF char = "&" /\ next = "&" THEN two("LOGICAL")
        ELSE IF char = "|" /\ next = "|" THEN two("LOGICAL")
        ELSE IF char \in {"<", ">"} THEN one("COMPARISON")
        ELSE IF char = "!" THEN one("LOGICAL")
        ELSE IF char = "=" THEN one("ASSIGN")
        ELSE IF char = "&" THEN one("AMPERSAND")
        ELSE IF char \in {"+", "-", "*", "/", "%", "^"} THEN one("OPERATOR")
        ELSE IF char \in Delimiters THEN one(DelimiterType(char))
        ELSE one("INVALID")

\* Lexer.tokenize from position p with the tokens pushed so far.
RECURSIVE TokenizeFrom(_, _, _)
TokenizeFrom(inp, p, toks) ==
    IF p < Len(inp)
    THEN LET s == LexStep(inp, p) IN TokenizeFrom(inp, s.pos, toks \o s.toks)
    ELSE Append(toks, Token("EOF", << >>, p))

\* new Lexer(text).tokenize()
Tokenize(text) == TokenizeFrom(Trim(text), 0, << >>)

(***************************************************************************)
(* JavaScript values.                                                      *)
(***************************************************************************)
Undefined == [t |-> "undefined"]
Null == [t |-> "null"]
NaN == [t |-> "nan"]
Infinity(sign) == [t |-> "inf", s |-> sign]

\* The magnitude up to which the model computes numbers exactly.  A result
\* beyond it (JavaScript still computes a double there) is OutOfRange, which
\* every later operation passes on.
NumCap == 10000
OutOfRange == [t |-> "out_of_range"]

Abs(n) == IF n < 0 THEN -n ELSE n
Sign(n) == IF n < 0 THEN -1 ELSE IF n > 0 THEN 1 ELSE 0

RECURSIVE Gcd(_, _)
Gcd(a, b) == IF b = 0 THEN a ELSE Gcd(b, a % b)

\* The number n/d (d # 0) in lowest terms with a positive denominator.
MkNum(n, d) ==
    LET g == Gcd(Abs(n), Abs(d))
        nn == (Sign(d) * n) \div g
        dd == Abs(d) \div g
    IN  IF Abs(nn) > NumCap \/ dd > NumCap THEN OutOfRange
        ELSE [t |-> "num", n |-> nn, d |-> dd]

Num(n) == MkNum(n, 1)
IsNum(v) == v.t = "num"
IsInteger(v) == v.t = "num" /\ v.d = 1

Get(obj, field) == IF field \in DOMAIN obj THEN obj[field] ELSE Undefined
Has(obj, field) == field \in DOMAIN obj

\* An object literal's optional field: absent when the value is undefined.
Opt(field, opt) == IF opt = << >> THEN << >> ELSE field :> opt[1]

DigitChars == << "0", "1", "2", "3", "4", "5", "6", "7", "8", "9" >>

\* String(n) for a natural number n: its decimal digits.
RECURSIVE NatToString(_)
NatToString(n) ==
    IF n < 10 THEN << DigitChars[n + 1] >>
    ELSE NatToString(n \div 10) \o << DigitChars[(n % 10) + 1] >>
DigitVal(c) == (CHOOSE i \in 1..10 : DigitChars[i] = c) - 1

RECURSIVE DigitsValue(_, _)
DigitsValue(s, acc) ==
    IF s = << >> THEN acc ELSE DigitsValue(Tail(s), 10 * acc + DigitVal(Head(s)))

RECURSIVE Pow10(_)
Pow10(k) == IF k = 0 THEN 1 ELSE 10 * Pow10(k - 1)

\* parseFloat on the text of a NUMBER token: digits, then at most one point and digits.
parseFloat(text) ==
    LET dots == {i \in 1..Len(text) : text[i] = "."}
    IN  IF dots = {} THEN Num(DigitsValue(text, 0))
        ELSE LET dot == CHOOSE i \in dots : TRUE
                 whole == SubSeq(text, 1, dot - 1)
                 frac == SubSeq(text, dot + 1, Len(text))
             IN  MkNum(DigitsValue(whole \o frac, 0), Pow10(Len(frac)))

(***************************************************************************)
(* The Parser.  A production takes the token list and the parser's state   *)
(* s = [cur, errs] (Parser.current and Parser.errors) and yields           *)
(* [cur, errs, ok, node]: ok = FALSE when the production threw.            *)
(***************************************************************************)
NoNode == [type |-> "<thrown>"]

\* A message: its template and the text interpolated into it (<< >> when none is).
Text(str, arg) == [text |-> str, arg |-> arg]

ParseError(message, pos, suggestion) ==
    [message |-> message, position |-> pos, suggestion |-> suggestion]

currentToken(toks, s) ==
    IF s.cur >= 0 /\ s.cur < Len(toks) THEN toks[s.cur + 1] ELSE toks[Len(toks)]

\* The parser after advance(); the token advance() returns is currentToken before it.
advance(toks, s) ==
    [cur |-> IF s.cur < Len(toks) - 1 THEN s.cur + 1 ELSE s.cur, errs |-> s.errs]

Return(s, node) == [cur |-> s.cur, errs |-> s.errs, ok |-> TRUE, node |-> node]

\* A throw that leaves Parser.errors as it was.
ThrowUnrecorded(s, err) == [cur |-> s.cur, errs |-> s.errs, ok |-> FALSE, node |-> NoNode]

\* this.errors.push(err); throw new Error(...)
Throw(s, err) == [cur |-> s.cur, errs |-> Append(s.errs, err), ok |-> FALSE, node |-> NoNode]

BinaryOp(operator, left, right) ==
    [type |-> "binary_op", operator |-> operator, left |-> left, right |-> right]

NumberNode(v) == [type |-> "number", value |-> v]


\* this.<name>(...) for a production method of the Parser: s is the parser at
\* the call and x holds the arguments the method takes.  It is defined after
\* the productions.
RECURSIVE Production(_, _, _, _)

\* The argument loop of a call: expressions up to ) or EOF, a comma after each skipped.
argumentList(toks, s, args) ==
    IF currentToken(toks, s).type \notin {"RPAREN", "EOF"}
    THEN LET e == Production("expression", toks, s, << >>)
         IN  IF ~e.ok THEN e
             ELSE Production("argumentList", toks,
                               IF currentToken(toks, e).type = "COMMA" THEN advance(toks, e) ELSE e, << Append(args, e.node) >>)
    ELSE Return(s, args)

\* The rest of a call after the opening parenthesis was consumed.
callArguments(toks, s, id) ==
    LET a == Production("argumentList", toks, s, << << >> >>)
    IN  IF ~a.ok THEN a
        ELSE IF currentToken(toks, a).type # "RPAREN"
             THEN Throw(a, ParseError(Text("Expected ) after function arguments", << >>),
                                      currentToken(toks, a).position,
                                      Text("Add ) to close function call", << >>)))
        ELSE Return(advance(toks, a),
                    [type |-> "function_call", identifier |-> id, arguments |-> a.node])

primaryIdentifier(toks, s) ==
    LET id == currentToken(toks, s).value
        s1 == advance(toks, s)
    IN  IF currentToken(toks, s1).type = "LBRACKET"
        THEN LET index == Production("expression", toks, advance(toks, s1), << >>)
             IN  IF ~index.ok THEN index
                 ELSE IF currentToken(toks, index).type # "RBRACKET"
                      THEN Throw(index, ParseError(Text("Expected ] after array index", << >>),
                                                   currentToken(toks, index).position,
                                                   Text("Add ] to close array subscript", << >>)))
                 ELSE Return(advance(toks, index),
                             [type |-> "array_access", identifier |-> id, value |-> index.node])
        ELSE IF currentToken(toks, s1).type = "LPAREN"
             THEN Production("callArguments", toks, advance(toks, s1), << id >>)
        ELSE Return(s1, [type |-> "identifier", value |-> id])

\* The error of an unclosed parenthesis reported where the ) was expected.
MissingClosingParenthesisAtCursor(toks, open, s) ==
    ParseError(Text("Missing closing parenthesis", << >>), currentToken(toks, s).position,
               Text("Add ')' after position ${this.currentToken().position}",
                    NatToString(currentToken(toks, s).position)))

\* The error of a parenthesized expression that is not closed.
MissingClosingParenthesis(toks, open, s) ==
    ParseError(Text("Missing closing parenthesis", << >>), open.position,
               Text("Add ')' after position ${this.currentToken().position}", NatToString(currentToken(toks, s).position)))

primaryParenthesized(toks, s) ==
    LET token == currentToken(toks, s)
        expr == Production("expression", toks, advance(toks, s), << >>)
    IN  IF ~expr.ok THEN expr
        ELSE IF currentToken(toks, expr).type # "RPAREN"
             THEN Throw(expr, MissingClosingParenthesis(toks, token, expr))
        ELSE Return(advance(toks, expr), expr.node)

\* A prefix operator node whose operand is the next primary.
primaryPrefixed(toks, s, prefix) ==
    LET operand == Production("primary", toks, advance(toks, s), << >>)
    IN  IF ~operand.ok THEN operand
        ELSE Return(operand,
                    IF prefix \in {"address_of", "dereference"}
                    THEN [type |-> prefix, right |-> operand.node]
                    ELSE BinaryOp(prefix, NumberNode(Num(0)), operand.node))

\* The tail of primary: the branches for ( ) and the operators, and the last resort.
primaryRest(toks, s, token) ==
    IF token.type = "LPAREN" THEN Production("primaryParenthesized", toks, s, << >>)
    ELSE IF token.type = "RPAREN"
         THEN Throw(s, ParseError(Text("Unexpected closing parenthesis", << >>), token.position,
                                  Text("Remove extra ) or add matching ( before it", << >>)))
    ELSE IF token.type = "OPERATOR"
         THEN IF token.value \in {<< "+" >>, << "-" >>}
              THEN Production("primaryPrefixed", toks, s,
                              << IF token.value = << "-" >> THEN "unary_neg" ELSE "unary_pos" >>)
              ELSE Throw(s, ParseError(Text("Expected number or '(' but got operator '${token.value}'", token.value),
                                       token.position,
                                       Text("Add a number or expression before the operator", << >>)))
    ELSE Throw(s, ParseError(Text("Expected number or '(' but got '${token.value}'", token.value), token.position,
                             Text("Expression must start with a number or (", << >>)))

primary(toks, s) ==
    LET token == currentToken(toks, s)
    IN  IF token.type = "NUMBER"
        THEN Return(advance(toks, s), NumberNode(parseFloat(token.value)))
        ELSE IF token.type = "STRING"
             THEN Return(advance(toks, s), [type |-> "string", value |-> token.value])
        ELSE IF token.type = "CHAR"
             THEN Return(advance(toks, s), [type |-> "char", value |-> token.value])
        ELSE IF token.type \in {"INCREMENT", "DECREMENT"}
             THEN LET s1 == advance(toks, s)
                  IN  IF currentToken(toks, s1).type = "IDENTIFIER"
                      THEN Return(advance(toks, s1),
                                  [type |-> "prefix", operator |-> token.value,
                                   identifier |-> currentToken(toks, s1).value])
                      ELSE Production("primaryRest", toks, s1, << token >>)
        ELSE IF token.type = "LOGICAL" /\ token.value = << "!" >>
             THEN Production("primaryPrefixed", toks, s, << "!" >>)
        ELSE IF token.type = "AMPERSAND"
             THEN Production("primaryPrefixed", toks, s, << "address_of" >>)
        ELSE IF token.type = "OPERATOR" /\ token.value = << "*" >>
             THEN Production("primaryPrefixed", toks, s, << "dereference" >>)
        ELSE IF token.type = "IDENTIFIER" THEN Production("primaryIdentifier", toks, s, << >>)
        ELSE Production("primaryRest", toks, s, << token >>)

\* The operator of a binary_op node: the text of the operator token.
OperatorName(value) ==
    CASE value = << "+" >> -> "+"   [] value = << "-" >> -> "-"
      [] value = << "*" >> -> "*"   [] value = << "/" >> -> "/"
      [] value = << "%" >> -> "%"   [] value = << "^" >> -> "^"
      [] value = << "<" >> -> "<"   [] value = << ">" >> -> ">"
      [] value = << "<", "=" >> -> "<="   [] value = << ">", "=" >> -> ">="
      [] value = << "=", "=" >> -> "=="   [] value = << "!", "=" >> -> "!="
      [] value = << "&", "&" >> -> "&&"   [] value = << "|", "|" >> -> "||"

\* A power whose right operand is a primary: a ^ b, and nothing after it.
powerOfPrimaries(toks, s) ==
    LET left == Production("primary", toks, s, << >>)
    IN  IF ~left.ok THEN left
        ELSE IF currentToken(toks, left).type = "OPERATOR" /\ currentToken(toks, left).value = << "^" >>
             THEN LET right == Production("primary", toks, advance(toks, left), << >>)
                  IN  IF ~right.ok THEN right
                      ELSE Return(right, BinaryOp("^", left.node, right.node))
        ELSE left

power(toks, s) ==
    LET left == Production("primary", toks, s, << >>)
    IN  IF ~left.ok THEN left
        ELSE IF currentToken(toks, left).type = "OPERATOR" /\ currentToken(toks, left).value = << "^" >>
             THEN LET right == Production("power", toks, advance(toks, left), << >>)
                  IN  IF ~right.ok THEN right
                      ELSE Return(right, BinaryOp("^", left.node, right.node))
        ELSE left

multiplicativeLoop(toks, left) ==
    LET token == currentToken(toks, left)
    IN  IF token.type = "OPERATOR" /\ token.value \in {<< "*" >>, << "/" >>, << "%" >>}
        THEN LET right == Production("power", toks, advance(toks, left), << >>)
             IN  IF ~right.ok THEN right
                 ELSE Production("multiplicativeLoop", toks,
                          Return(right, BinaryOp(OperatorName(token.value), left.node, right.node)), << >>)
        ELSE left

multiplicative(toks, s) ==
    LET left == Production("power", toks, s, << >>)
    IN  IF ~left.ok THEN left ELSE Production("multiplicativeLoop", toks, left, << >>)

\* An additive loop whose operands are powers instead of multiplicative terms.
additiveLoopOfPowers(toks, left) ==
    LET token == currentToken(toks, left)
    IN  IF token.type = "OPERATOR" /\ token.value \in {<< "+" >>, << "-" >>, << "*" >>, << "/" >>, << "%" >>}
        THEN LET right == Production("power", toks, advance(toks, left), << >>)
             IN  IF ~right.ok THEN right
                 ELSE Production("additiveLoop", toks,
                          Return(right, BinaryOp(OperatorName(token.value), left.node, right.node)), << >>)
        ELSE left

additiveLoop(toks, left) ==
    LET token == currentToken(toks, left)
    IN  IF token.type = "OPERATOR" /\ token.value \in {<< "+" >>, << "-" >>}
        THEN LET right == Production("multiplicative", toks, advance(toks, left), << >>)
             IN  IF ~right.ok THEN right
                 ELSE Production("additiveLoop", toks,
                          Return(right, BinaryOp(OperatorName(token.value), left.node, right.node)), << >>)
        ELSE left

additive(toks, s) ==
    LET left == Production("multiplicative", toks, s, << >>)
    IN  IF ~left.ok THEN left ELSE Production("additiveLoop", toks, left, << >>)

relationalLoop(toks, left) ==
    LET token == currentToken(toks, left)
    IN  IF token.type = "COMPARISON"
           /\ token.value \in {<< "<" >>, << ">" >>, << "<", "=" >>, << ">", "=" >>}
        THEN LET right == Production("additive", toks, advance(toks, left), << >>)
             IN  IF ~right.ok THEN right
                 ELSE Production("relationalLoop", toks,
                          Return(right, BinaryOp(OperatorName(token.value), left.node, right.node)), << >>)
        ELSE left

relational(toks, s) ==
    LET left == Production("additive", toks, s, << >>)
    IN  IF ~left.ok THEN left ELSE Production("relationalLoop", toks, left, << >>)

equalityLoop(toks, left) ==
    LET token == currentToken(toks, left)
    IN  IF token.type = "COMPARISON" /\ token.value \in {<< "=", "=" >>, << "!", "=" >>}
        THEN LET right == Production("relational", toks, advance(toks, left), << >>)
             IN  IF ~right.ok THEN right
                 ELSE Production("equalityLoop", toks,
                          Return(right, BinaryOp(OperatorName(token.value), left.node, right.node)), << >>)
        ELSE left

equality(toks, s) ==
    LET left == Production("relational", toks, s, << >>)
    IN  IF ~left.ok THEN left ELSE Production("equalityLoop", toks, left, << >>)

logicalAndLoop(toks, left) ==
    LET token == currentToken(toks, left)
    IN  IF token.type = "LOGICAL" /\ token.value = << "&", "&" >>
        THEN LET right == Production("equality", toks, advance(toks, left), << >>)
             IN  IF ~right.ok THEN right
                 ELSE Production("logicalAndLoop", toks,
                          Return(right, BinaryOp(OperatorName(token.value), left.node, right.node)), << >>)
        ELSE left

logicalAnd(toks, s) ==
    LET left == Production("equality", toks, s, << >>)
    IN  IF ~left.ok THEN left ELSE Production("logicalAndLoop", toks, left, << >>)

logicalOrLoop(toks, left) ==
    LET token == currentToken(toks, left)
    IN  IF token.type = "LOGICAL" /\ token.value = << "|", "|" >>
        THEN LET right == Production("logicalAnd", toks, advance(toks, left), << >>)
             IN  IF ~right.ok THEN right
                 ELSE Production("logicalOrLoop", toks,
                          Return(right, BinaryOp(OperatorName(token.value), left.node, right.node)), << >>)
        ELSE left

logicalOr(toks, s) ==
    LET left == Production("logicalAnd", toks, s, << >>)
    IN  IF ~left.ok THEN left ELSE Production("logicalOrLoop", toks, left, << >>)

expression(toks, s) == Production("logicalOr", toks, s, << >>)

(***************************************************************************)
(* The statement grammar.                                                  *)
(***************************************************************************)
\* The reserved words the parser tests for, as the lexer spells them.
K_int == <<"i","n","t">>
K_float == <<"f","l","o","a","t">>
K_char == <<"c","h","a","r">>
K_void == <<"v","o","i","d">>
K_double == <<"d","o","u","b","l","e">>
K_long == <<"l","o","n","g">>
K_short == <<"s","h","o","r","t">>
K_unsigned == <<"u","n","s","i","g","n","e","d">>
K_signed == <<"s","i","g","n","e","d">>
K_if == <<"i","f">>
K_else == <<"e","l","s","e">>
K_while == <<"w","h","i","l","e">>
K_for == <<"f","o","r">>
K_do == <<"d","o">>
K_switch == <<"s","w","i","t","c","h">>
K_case == <<"c","a","s","e">>
K_default == <<"d","e","f","a","u","l","t">>
K_break == <<"b","r","e","a","k">>
K_continue == <<"c","o","n","t","i","n","u","e">>
K_return == <<"r","e","t","u","r","n">>

TypeKeywords == {K_int, K_float, K_char, K_void, K_double, K_long, K_short, K_unsigned, K_signed}

IsKeyword(token, word) == token.type = "KEYWORD" /\ token.value = word

\* The text of an assignment, increment or decrement token, as a node's operator.
AssignOperatorName(value) ==
    CASE value = << "=" >> -> "="
      [] value = << "+", "=" >> -> "+="   [] value = << "-", "=" >> -> "-="
      [] value = << "*", "=" >> -> "*="   [] value = << "/", "=" >> -> "/="
      [] value = << "%", "=" >> -> "%="
      [] value = << "+", "+" >> -> "++"   [] value = << "-", "-" >> -> "--"

\* if (currentToken is ;) advance
skipSemicolon(toks, s) ==
    IF currentToken(toks, s).type = "SEMICOLON" THEN advance(toks, s) ELSE [cur |-> s.cur, errs |-> s.errs]


\* A loop pushing statements until the current token's type is one of stop.
statementList(toks, s, stop, statements) ==
    IF currentToken(toks, s).type \notin stop
    THEN LET st == Production("statement", toks, s, << >>)
         IN  IF ~st.ok THEN st ELSE Production("statementList", toks, st, << stop, Append(statements, st.node) >>)
    ELSE Return(s, statements)

block(toks, s) ==
    IF currentToken(toks, s).type # "LBRACE"
    THEN Throw(s, ParseError(Text("Expected {", << >>), currentToken(toks, s).position,
                             Text("Add { to start block", << >>)))
    ELSE LET body == Production("statementList", toks, advance(toks, s), << {"RBRACE", "EOF"}, << >> >>)
         IN  IF ~body.ok THEN body
             ELSE IF currentToken(toks, body).type # "RBRACE"
                  THEN Throw(body, ParseError(Text("Missing closing brace", << >>),
                                              currentToken(toks, body).position,
                                              Text("Add } to close block", << >>)))
             ELSE Return(advance(toks, body), [type |-> "block", statements |-> body.node])

\* currentToken is { ? block() : statement()
blockOrStatement(toks, s) ==
    IF currentToken(toks, s).type = "LBRACE" THEN Production("block", toks, s, << >>) ELSE Production("statement", toks, s, << >>)

\* The parameter loop of functionDeclaration.
parameterList(toks, s, parameters) ==
    LET isKw == currentToken(toks, s).type = "KEYWORD"
        paramType == currentToken(toks, s).value
        s1 == IF isKw THEN advance(toks, s) ELSE s
        paramPointer == isKw /\ currentToken(toks, s1).type = "OPERATOR"
                             /\ currentToken(toks, s1).value = << "*" >>
        s2 == IF paramPointer THEN advance(toks, s1) ELSE s1
        named == isKw /\ currentToken(toks, s2).type = "IDENTIFIER"
        s3 == IF named THEN advance(toks, s2) ELSE s2
        params == IF named
                  THEN Append(parameters,
                              [type |-> IF paramPointer THEN Append(paramType, "*") ELSE paramType,
                               name |-> currentToken(toks, s2).value])
                  ELSE parameters
    IN  IF currentToken(toks, s3).type = "COMMA"
        THEN Production("parameterList", toks, advance(toks, s3), << params >>)
        ELSE Return(s3, params)

functionDeclaration(toks, s, returnType, name, isPointer) ==
    LET s1 == advance(toks, s)
        ps == IF currentToken(toks, s1).type # "RPAREN"
              THEN Production("parameterList", toks, s1, << << >> >>)
              ELSE Return(s1, << >>)
    IN  IF currentToken(toks, ps).type # "RPAREN"
        THEN Throw(ps, ParseError(Text("Missing closing parenthesis in function declaration", << >>),
                                  currentToken(toks, ps).position,
                                  Text("Add ) after parameters", << >>)))
        ELSE LET body == Production("block", toks, advance(toks, ps), << >>)
             IN  IF ~body.ok THEN body
                 ELSE Return(body, [type |-> "function",
                                    returnType |-> IF isPointer THEN Append(returnType, "*") ELSE returnType,
                                    identifier |-> name,
                                    parameters |-> ps.node,
                                    body |-> body.node])

\* The leading * of a pointer declaration.
RECURSIVE skipStars(_, _)
skipStars(toks, s) ==
    IF currentToken(toks, s).type = "OPERATOR" /\ currentToken(toks, s).value = << "*" >>
    THEN skipStars(toks, advance(toks, s))
    ELSE s

\* The optional initializer: [= expression].  node is << >> or << init >>.
initializer(toks, s) ==
    IF currentToken(toks, s).type = "ASSIGN"
    THEN LET e == Production("expression", toks, advance(toks, s), << >>)
         IN  IF ~e.ok THEN e ELSE Return(e, << e.node >>)
    ELSE Return(s, << >>)

arrayDeclaration(toks, s, dataType, identifier, isPointer) ==
    LET s1 == advance(toks, s)
        sized == currentToken(toks, s1).type = "NUMBER"
        size == IF sized THEN << NumberNode(parseFloat(currentToken(toks, s1).value)) >> ELSE << >>
        s2 == IF sized THEN advance(toks, s1) ELSE s1
    IN  IF currentToken(toks, s2).type # "RBRACKET"
        THEN Throw(s2, ParseError(Text("Expected ] after array size", << >>),
                                  currentToken(toks, s2).position,
                                  Text("Add ] to close array declaration", << >>)))
        ELSE LET init == Production("initializer", toks, advance(toks, s2), << >>)
             IN  IF ~init.ok THEN init
                 ELSE IF currentToken(toks, init).type # "SEMICOLON"
                      THEN Throw(init, ParseError(Text("Missing semicolon", << >>),
                                                  currentToken(toks, init).position,
                                                  Text("Add ; after array declaration", << >>)))
                 ELSE Return(advance(toks, init),
                             [type |-> "declaration", dataType |-> dataType,
                              identifier |-> identifier, isArray |-> TRUE,
                              isPointer |-> isPointer]
                             @@ Opt("size", size) @@ Opt("init", init.node))

declaration(toks, s) ==
    LET dataType == currentToken(toks, s).value
        s1 == advance(toks, s)
        s2 == skipStars(toks, s1)
        isPointer == s2.cur # s1.cur
        identifier == currentToken(toks, s2).value
        s3 == advance(toks, s2)
    IN  IF currentToken(toks, s2).type # "IDENTIFIER"
        THEN Throw(s2, ParseError(Text("Expected identifier after type", << >>),
                                  currentToken(toks, s2).position,
                                  Text("Add variable name after '${dataType}'", dataType)))
        ELSE IF currentToken(toks, s3).type = "LBRACKET"
             THEN Production("arrayDeclaration", toks, s3, << dataType, identifier, isPointer >>)
        ELSE IF currentToken(toks, s3).type = "LPAREN"
             THEN Production("functionDeclaration", toks, s3, << dataType, identifier, isPointer >>)
        ELSE LET init == Production("initializer", toks, s3, << >>)
             IN  IF ~init.ok THEN init
                 ELSE IF currentToken(toks, init).type # "SEMICOLON"
                      THEN Throw(init, ParseError(Text("Missing semicolon", << >>),
                                                  currentToken(toks, init).position,
                                                  Text("Add ';' after declaration", << >>)))
                 ELSE Return(advance(toks, init),
                             [type |-> "declaration", dataType |-> dataType,
                              identifier |-> identifier, isPointer |-> isPointer]
                             @@ Opt("init", init.node))

\* ( expression ) after a keyword: the keyword was consumed, s is at the (.
\* what names the construct in the error texts.
parenthesized(toks, s, openMessage, openSuggestion, closeMessage, closeSuggestion) ==
    IF currentToken(toks, s).type # "LPAREN"
    THEN Throw(s, ParseError(Text(openMessage, << >>), currentToken(toks, s).position,
                             Text(openSuggestion, << >>)))
    ELSE LET e == Production("expression", toks, advance(toks, s), << >>)
         IN  IF ~e.ok THEN e
             ELSE IF currentToken(toks, e).type # "RPAREN"
                  THEN Throw(e, ParseError(Text(closeMessage, << >>), currentToken(toks, e).position,
                                           Text(closeSuggestion, << >>)))
             ELSE Return(advance(toks, e), e.node)

ifStatement(toks, s) ==
    LET condition == Production("parenthesized", toks, advance(toks, s), << "Expected ( after if", "Add ( before condition", "Expected ) after condition", "Add ) after if condition" >>)
    IN  IF ~condition.ok THEN condition
        ELSE LET body == Production("blockOrStatement", toks, condition, << >>)
             IN  IF ~body.ok THEN body
                 ELSE LET node == [type |-> "if_statement", condition |-> condition.node,
                                   body |-> body.node]
                      IN  IF IsKeyword(currentToken(toks, body), K_else)
                          THEN LET elseBranch == Production("blockOrStatement", toks, advance(toks, body), << >>)
                               IN  IF ~elseBranch.ok THEN elseBranch
                                   ELSE Return(elseBranch, node @@ ("elseBranch" :> elseBranch.node))
                          ELSE Return(body, node)

whileLoop(toks, s) ==
    LET condition == Production("parenthesized", toks, advance(toks, s), << "Expected ( after while", "Add ( before condition", "Expected ) after condition", "Add ) after while condition" >>)
    IN  IF ~condition.ok THEN condition
        ELSE LET body == Production("blockOrStatement", toks, condition, << >>)
             IN  IF ~body.ok THEN body
                 ELSE Return(body, [type |-> "while_loop", condition |-> condition.node,
                                    body |-> body.node])

doWhileLoop(toks, s) ==
    LET body == Production("blockOrStatement", toks, advance(toks, s), << >>)
    IN  IF ~body.ok THEN body
        ELSE IF ~IsKeyword(currentToken(toks, body), K_while)
             THEN Throw(body, ParseError(Text("Expected 'while' after do body", << >>),
                                         currentToken(toks, body).position,
                                         Text("Add 'while (condition)' after do block", << >>)))
        ELSE LET condition == Production("parenthesized", toks, advance(toks, body), << "Expected ( after while", "Add ( before condition", "Expected ) after condition", "Add ) after condition" >>)
             IN  IF ~condition.ok THEN condition
                 ELSE Return(skipSemicolon(toks, condition),
                             [type |-> "do_while", condition |-> condition.node, body |-> body.node])

\* The loop of switchStatement over its case and default labels.  sw holds the
\* cases pushed so far and, once a default label was seen, its statements.
switchBody(toks, s, sw) ==
    LET token == currentToken(toks, s)
        bodyStop == {"KEYWORD", "RBRACE", "EOF"}
    IN  IF token.type \in {"RBRACE", "EOF"} THEN Return(s, sw)
        ELSE IF IsKeyword(token, K_case)
             THEN LET value == Production("expression", toks, advance(toks, s), << >>)
                  IN  IF ~value.ok THEN value
                      ELSE LET s1 == IF currentToken(toks, value).type # "SEMICOLON"
                                     THEN [cur |-> value.cur,
                                           errs |-> Append(value.errs,
                                               ParseError(Text("Expected : after case value", << >>),
                                                          currentToken(toks, value).position,
                                                          Text("Add : after case value", << >>)))]
                                     ELSE advance(toks, value)
                               body == Production("statementList", toks, s1, << bodyStop, << >> >>)
                           IN  IF ~body.ok THEN body
                               ELSE Production("switchBody", toks, body, << [sw EXCEPT !.cases =
                                            Append(@, [value |-> value.node, body |-> body.node])] >>)
        ELSE IF IsKeyword(token, K_default)
             THEN LET body == Production("statementList", toks, skipSemicolon(toks, advance(toks, s)), << bodyStop, << >> >>)
                  IN  IF ~body.ok THEN body
                      ELSE Production("switchBody", toks, body, << [sw EXCEPT !.default = << body.node >>] >>)
        ELSE Return(s, sw)

switchStatement(toks, s) ==
    LET test == Production("parenthesized", toks, advance(toks, s), << "Expected ( after switch", "Add ( before expression", "Expected ) after switch expression", "Add ) after expression" >>)
    IN  IF ~test.ok THEN test
        ELSE IF currentToken(toks, test).type # "LBRACE"
             THEN Throw(test, ParseError(Text("Expected { after switch", << >>),
                                         currentToken(toks, test).position,
                                         Text("Add { to start switch body", << >>)))
        ELSE LET sw == Production("switchBody", toks, advance(toks, test), << [cases |-> << >>, default |-> << >>] >>)
             IN  IF ~sw.ok THEN sw
                 ELSE IF currentToken(toks, sw).type # "RBRACE"
                      THEN Throw(sw, ParseError(Text("Expected } to close switch", << >>),
                                                currentToken(toks, sw).position,
                                                Text("Add } to close switch statement", << >>)))
                 ELSE Return(advance(toks, sw),
                             [type |-> "switch", test |-> test.node, cases |-> sw.node.cases]
                             @@ Opt("default", sw.node.default))

returnStatement(toks, s) ==
    LET s1 == advance(toks, s)
        value == IF currentToken(toks, s1).type # "SEMICOLON"
                 THEN LET e == Production("expression", toks, s1, << >>)
                      IN  IF ~e.ok THEN e ELSE Return(e, << e.node >>)
                 ELSE Return(s1, << >>)
    IN  IF ~value.ok THEN value
        ELSE IF currentToken(toks, value).type # "SEMICOLON"
             THEN Throw(value, ParseError(Text("Missing semicolon after return", << >>),
                                          currentToken(toks, value).position,
                                          Text("Add ; after return statement", << >>)))
        ELSE Return(advance(toks, value), [type |-> "return"] @@ Opt("value", value.node))

\* identifier op expression [;] with op an assignment or compound assignment token at s.
assignmentTail(toks, s, base) ==
    LET op == AssignOperatorName(currentToken(toks, s).value)
        value == Production("expression", toks, advance(toks, s), << >>)
    IN  IF ~value.ok THEN value
        ELSE Return(skipSemicolon(toks, value),
                    [type |-> "assignment", value |-> value.node, operator |-> op] @@ base)

\* assignmentOrExpression after the identifier and an optional subscript that no
\* assignment followed.
assignmentOrExpressionRest(toks, s, identifier) ==
    LET token == currentToken(toks, s)
    IN  IF token.type = "LPAREN"
        THEN LET call == Production("callArguments", toks, advance(toks, s), << identifier >>)
             IN  IF ~call.ok THEN call ELSE Return(skipSemicolon(toks, call), call.node)
        ELSE IF token.type \in {"INCREMENT", "DECREMENT"}
             THEN Return(skipSemicolon(toks, advance(toks, s)),
                         [type |-> "postfix", operator |-> AssignOperatorName(token.value),
                          identifier |-> identifier])
        ELSE IF token.type \in {"ASSIGN", "COMPOUND_ASSIGN"}
             THEN Production("assignmentTail", toks, s, << [identifier |-> identifier] >>)
        ELSE LET expr == Production("expression", toks, [cur |-> s.cur - 1, errs |-> s.errs], << >>)
             IN  IF ~expr.ok THEN expr ELSE Return(skipSemicolon(toks, expr), expr.node)

assignmentOrExpression(toks, s) ==
    LET identifier == currentToken(toks, s).value
        s1 == advance(toks, s)
    IN  IF currentToken(toks, s1).type = "LBRACKET"
        THEN LET index == Production("expression", toks, advance(toks, s1), << >>)
             IN  IF ~index.ok THEN index
                 ELSE IF currentToken(toks, index).type # "RBRACKET"
                      THEN Throw(index, ParseError(Text("Expected ] after array index", << >>),
                                                   currentToken(toks, index).position,
                                                   Text("Add ] to close array subscript", << >>)))
                 ELSE LET s2 == advance(toks, index)
                      IN  IF currentToken(toks, s2).type \in {"ASSIGN", "COMPOUND_ASSIGN"}
                          THEN Production("assignmentTail", toks, s2, << [identifier |-> identifier,
                                    left |-> [type |-> "array_access", identifier |-> identifier,
                                              value |-> index.node]] >>)
                          ELSE Production("assignmentOrExpressionRest", toks, s2, << identifier >>)
        ELSE Production("assignmentOrExpressionRest", toks, s1, << identifier >>)

forLoop(toks, s) ==
    LET s1 == advance(toks, s)
    IN  IF currentToken(toks, s1).type # "LPAREN"
        THEN Throw(s1, ParseError(Text("Expected ( after for", << >>),
                                  currentToken(toks, s1).position,
                                  Text("Add ( before for clauses", << >>)))
        ELSE LET s2 == advance(toks, s1)
                 init == IF currentToken(toks, s2).type = "SEMICOLON"
                         THEN Return(s2, << >>)
                         ELSE LET st == Production("statement", toks, s2, << >>)
                              IN  IF ~st.ok THEN st ELSE Return(st, << st.node >>)
             IN  IF ~init.ok THEN init
                 ELSE LET condition == IF currentToken(toks, init).type = "SEMICOLON"
                                       THEN Return(init, << >>)
                                       ELSE LET e == Production("expression", toks, init, << >>)
                                            IN  IF ~e.ok THEN e ELSE Return(e, << e.node >>)
                      IN  IF ~condition.ok THEN condition
                          ELSE LET s3 == skipSemicolon(toks, condition)
                                   increment == IF currentToken(toks, s3).type = "RPAREN"
                                                THEN Return(s3, << >>)
                                                ELSE LET a == Production("assignmentOrExpression", toks, s3, << >>)
                                                     IN  IF ~a.ok THEN a ELSE Return(a, << a.node >>)
                               IN  IF ~increment.ok THEN increment
                                   ELSE IF currentToken(toks, increment).type # "RPAREN"
                                        THEN Throw(increment,
                                                   ParseError(Text("Expected ) after for clauses", << >>),
                                                              currentToken(toks, increment).position,
                                                              Text("Add ) after for loop header", << >>)))
                                   ELSE LET body == Production("blockOrStatement", toks, advance(toks, increment), << >>)
                                        IN  IF ~body.ok THEN body
                                            ELSE Return(body,
                                                     [type |-> "for_loop", body |-> body.node]
                                                     @@ Opt("init", init.node)
                                                     @@ Opt("condition", condition.node)
                                                     @@ Opt("increment", increment.node))

statement(toks, s) ==
    LET token == currentToken(toks, s)
    IN  IF token.type = "KEYWORD" /\ token.value \in TypeKeywords THEN Production("declaration", toks, s, << >>)
        ELSE IF IsKeyword(token, K_if) THEN Production("ifStatement", toks, s, << >>)
        ELSE IF IsKeyword(token, K_while) THEN Production("whileLoop", toks, s, << >>)
        ELSE IF IsKeyword(token, K_for) THEN Production("forLoop", toks, s, << >>)
        ELSE IF IsKeyword(token, K_do) THEN Production("doWhileLoop", toks, s, << >>)
        ELSE IF IsKeyword(token, K_switch) THEN Production("switchStatement", toks, s, << >>)
        ELSE IF IsKeyword(token, K_break)
             THEN Return(skipSemicolon(toks, advance(toks, s)), [type |-> "break"])
        ELSE IF IsKeyword(token, K_continue)
             THEN Return(skipSemicolon(toks, advance(toks, s)), [type |-> "continue"])
        ELSE IF IsKeyword(token, K_return) THEN Production("returnStatement", toks, s, << >>)
        ELSE IF token.type = "LBRACE" THEN Production("block", toks, s, << >>)
        ELSE IF token.type = "IDENTIFIER" THEN Production("assignmentOrExpression", toks, s, << >>)
        ELSE Throw(s, ParseError(Text("Unexpected token '${token.value}'", token.value), token.position,
                                 Text("Expected declaration, statement, or expression", << >>)))

\* The loop of program(): preprocessor lines and statements up to EOF.
programLoop(toks, s, statements) ==
    IF currentToken(toks, s).type # "EOF"
    THEN IF currentToken(toks, s).type = "PREPROCESSOR"
         THEN Production("programLoop", toks, advance(toks, s), << Append(statements, [type |-> "preprocessor",
                                              directive |-> currentToken(toks, s).value]) >>)
         ELSE LET st == Production("statement", toks, s, << >>)
              IN  IF ~st.ok THEN st ELSE Production("programLoop", toks, st, << Append(statements, st.node) >>)
    ELSE Return(s, statements)

program(toks, s) ==
    LET p == Production("programLoop", toks, s, << << >> >>)
    IN  IF ~p.ok THEN p ELSE Return(p, [type |-> "program", statements |-> p.node])

\* The production methods by name.
Production(name, toks, s, x) ==
    CASE name = "argumentList" -> argumentList(toks, s, x[1])
      [] name = "callArguments" -> callArguments(toks, s, x[1])
      [] name = "primaryIdentifier" -> primaryIdentifier(toks, s)
      [] name = "primaryParenthesized" -> primaryParenthesized(toks, s)
      [] name = "primaryPrefixed" -> primaryPrefixed(toks, s, x[1])
      [] name = "primaryRest" -> primaryRest(toks, s, x[1])
      [] name = "primary" -> primary(toks, s)
      [] name = "power" -> power(toks, s)
      [] name = "multiplicativeLoop" -> multiplicativeLoop(toks, s)
      [] name = "multiplicative" -> multiplicative(toks, s)
      [] name = "additiveLoop" -> additiveLoop(toks, s)
      [] name = "additive" -> additive(toks, s)
      [] name = "relationalLoop" -> relationalLoop(toks, s)
      [] name = "relational" -> relational(toks, s)
      [] name = "equalityLoop" -> equalityLoop(toks, s)
      [] name = "equality" -> equality(toks, s)
      [] name = "logicalAndLoop" -> logicalAndLoop(toks, s)
      [] name = "logicalAnd" -> logicalAnd(toks, s)
      [] name = "logicalOrLoop" -> logicalOrLoop(toks, s)
      [] name = "logicalOr" -> logicalOr(toks, s)
      [] name = "expression" -> expression(toks, s)
      [] name = "statementList" -> statementList(toks, s, x[1], x[2])
      [] name = "block" -> block(toks, s)
      [] name = "blockOrStatement" -> blockOrStatement(toks, s)
      [] name = "parameterList" -> parameterList(toks, s, x[1])
      [] name = "functionDeclaration" -> functionDeclaration(toks, s, x[1], x[2], x[3])
      [] name = "initializer" -> initializer(toks, s)
      [] name = "arrayDeclaration" -> arrayDeclaration(toks, s, x[1], x[2], x[3])
      [] name = "declaration" -> declaration(toks, s)
      [] name = "parenthesized" -> parenthesized(toks, s, x[1], x[2], x[3], x[4])
      [] name = "ifStatement" -> ifStatement(toks, s)
      [] name = "whileLoop" -> whileLoop(toks, s)
      [] name = "doWhileLoop" -> doWhileLoop(toks, s)
      [] name = "switchBody" -> switchBody(toks, s, x[1])
      [] name = "switchStatement" -> switchStatement(toks, s)
      [] name = "returnStatement" -> returnStatement(toks, s)
      [] name = "assignmentTail" -> assignmentTail(toks, s, x[1])
      [] name = "assignmentOrExpressionRest" -> assignmentOrExpressionRest(toks, s, x[1])
      [] name = "assignmentOrExpression" -> assignmentOrExpression(toks, s)
      [] name = "forLoop" -> forLoop(toks, s)
      [] name = "statement" -> statement(toks, s)
      [] name = "programLoop" -> programLoop(toks, s, x[1])
      [] name = "program" -> program(toks, s)

\* A test for C code that does not count preprocessor lines.
hasCFeaturesWithoutPreprocessor(toks) ==
    \E i \in 1..Len(toks) : toks[i].type \in {"KEYWORD", "SEMICOLON", "LBRACE", "RBRACE"}

\* this.tokens.some(t => KEYWORD, SEMICOLON, LBRACE, RBRACE or PREPROCESSOR)
hasCFeatures(toks) ==
    \E i \in 1..Len(toks) :
        toks[i].type \in {"KEYWORD", "SEMICOLON", "LBRACE", "RBRACE", "PREPROCESSOR"}

Failure(errors) == [success |-> FALSE, errors |-> errors]
Success(node) == [success |-> TRUE, tree |-> node]

\* The check for an INVALID token reporting the last such token.
invalidCharacterCheckLast(toks) ==
    LET invalid == {i \in 1..Len(toks) : toks[i].type = "INVALID"}
        invalidToken == toks[CHOOSE i \in invalid : \A j \in invalid : i >= j]
    IN  IF invalid # {}
        THEN << ParseError(Text("Invalid character '${invalidToken.value}'", invalidToken.value),
                           invalidToken.position,
                           Text("Remove '${invalidToken.value}' or use valid characters",
                                invalidToken.value)) >>
        ELSE << >>

\* The check of parse() for an INVALID token, made before any production runs.
invalidCharacterCheck(toks) ==
    LET invalid == {i \in 1..Len(toks) : toks[i].type = "INVALID"}
        invalidToken == toks[CHOOSE i \in invalid : \A j \in invalid : i <= j]
    IN  IF invalid # {}
        THEN << ParseError(Text("Invalid character '${invalidToken.value}'", invalidToken.value), invalidToken.position,
                           Text("Remove '${invalidToken.value}' or use valid characters", invalidToken.value)) >>
        ELSE << >>

\* A parse() that does not look at the cursor once the top production returned.
parseOutcomeIgnoringRest(toks, r) ==
    IF ~r.ok \/ Len(r.errs) > 0 THEN Failure(r.errs) ELSE Success(r.node)

\* What parse() returns once the top production r has returned or thrown.
parseOutcome(toks, r) ==
    IF ~r.ok THEN Failure(r.errs)
    ELSE LET token == currentToken(toks, r)
             errors == IF token.type # "EOF"
                       THEN Append(r.errs,
                                   ParseError(Text("Unexpected token '${token.value}'", token.value), token.position,
                                              Text("Check for missing operators, semicolons, or braces", << >>)))
                       ELSE r.errs
         IN  IF Len(errors) > 0 THEN Failure(errors) ELSE Success(r.node)

\* Parser.parse() on a token list.
parse(toks) ==
    IF invalidCharacterCheck(toks) # << >> THEN Failure(invalidCharacterCheck(toks))
    ELSE parseOutcome(toks,
                      IF hasCFeatures(toks)
                      THEN Production("program", toks, [cur |-> 0, errs |-> << >>], << >>)
                      ELSE Production("expression", toks, [cur |-> 0, errs |-> << >>], << >>))

\* parseExpression without the test for an empty input.
parseExpressionUnchecked(text) == parse(Tokenize(text))

parseExpression(text) ==
    IF Trim(text) = << >>
    THEN Failure(<< ParseError(Text("Empty expression", << >>), 0,
                               Text("Enter an arithmetic expression or C program", << >>)) >>)
    ELSE parse(Tokenize(text))

(***************************************************************************)
(* JavaScript arithmetic on the values of the model.                       *)
(***************************************************************************)
\* ToNumber: null is 0, undefined is NaN.
ToNumber(v) == IF v.t = "null" THEN Num(0) ELSE IF v.t = "undefined" THEN NaN ELSE v

\* ToBoolean: 0, NaN, null and undefined are falsy.
Falsy(v) == v.t \in {"null", "undefined", "nan"} \/ (v.t = "num" /\ v.n = 0)

Neg(v) ==
    CASE v.t = "num" -> MkNum(-v.n, v.d)
      [] v.t = "inf" -> Infinity(-v.s)
      [] OTHER -> v

\* Math.floor
Floor(v) == IF v.t = "num" THEN Num(v.n \div v.d) ELSE v

\* Math.trunc
Trunc(v) == IF v.t = "num" THEN (IF v.n < 0 THEN Num(-((-v.n) \div v.d)) ELSE Num(v.n \div v.d)) ELSE v

Add(x, y) ==
    LET a == ToNumber(x)
        b == ToNumber(y)
    IN  IF a.t = "nan" \/ b.t = "nan" THEN NaN
        ELSE IF a.t = "out_of_range" \/ b.t = "out_of_range" THEN OutOfRange
        ELSE IF a.t = "inf" THEN (IF b.t = "inf" /\ b.s # a.s THEN NaN ELSE a)
        ELSE IF b.t = "inf" THEN b
        ELSE MkNum(a.n * b.d + b.n * a.d, a.d * b.d)

Sub(x, y) == Add(x, Neg(ToNumber(y)))

Mul(x, y) ==
    LET a == ToNumber(x)
        b == ToNumber(y)
        sgn(v) == IF v.t = "inf" THEN v.s ELSE Sign(v.n)
    IN  IF a.t = "nan" \/ b.t = "nan" THEN NaN
        ELSE IF a.t = "out_of_range" \/ b.t = "out_of_range" THEN OutOfRange
        ELSE IF a.t = "inf" \/ b.t = "inf"
             THEN (IF sgn(a) * sgn(b) = 0 THEN NaN ELSE Infinity(sgn(a) * sgn(b)))
        ELSE MkNum(a.n * b.n, a.d * b.d)

\* left / right on numbers: IEEE division, so a zero divisor yields an infinity or NaN.
Div(x, y) ==
    LET a == ToNumber(x)
        b == ToNumber(y)
        sgn(v) == IF v.t = "inf" THEN v.s ELSE Sign(v.n)
    IN  IF a.t = "nan" \/ b.t = "nan" THEN NaN
        ELSE IF a.t = "out_of_range" \/ b.t = "out_of_range" THEN OutOfRange
        ELSE IF a.t = "inf"
             THEN (IF b.t = "inf" THEN NaN ELSE Infinity(IF sgn(b) < 0 THEN -a.s ELSE a.s))
        ELSE IF b.t = "inf" THEN Num(0)
        ELSE IF b.n = 0 THEN (IF a.n = 0 THEN NaN ELSE Infinity(Sign(a.n)))
        ELSE MkNum(a.n * b.d, a.d * b.n)

\* left % right: the remainder that takes the sign of the dividend.
Mod(x, y) ==
    LET a == ToNumber(x)
        b == ToNumber(y)
    IN  IF a.t = "nan" \/ b.t = "nan" THEN NaN
        ELSE IF a.t = "out_of_range" \/ b.t = "out_of_range" THEN OutOfRange
        ELSE IF a.t = "inf" THEN NaN
        ELSE IF b.t = "inf" THEN a
        ELSE IF b.n = 0 THEN NaN
        ELSE Sub(a, Mul(b, Trunc(Div(a, b))))

RECURSIVE PowNat(_, _, _)
PowNat(base, e, acc) ==
    IF e = 0 \/ acc.t # "num" THEN acc ELSE PowNat(base, e - 1, Mul(acc, base))

\* Math.pow for a finite base and an integer exponent; other operands are
\* outside the numbers the model represents.
Pow(x, y) ==
    LET a == ToNumber(x)
        b == ToNumber(y)
    IN  IF b.t = "num" /\ b.n = 0 THEN Num(1)
        ELSE IF a.t = "nan" \/ b.t = "nan" THEN NaN
        ELSE IF a.t # "num" \/ ~IsInteger(b) THEN OutOfRange
        ELSE IF a.n = 0 THEN (IF b.n > 0 THEN Num(0) ELSE Infinity(1))
        ELSE IF a = Num(1) THEN Num(1)
        ELSE IF a = Num(-1) THEN (IF b.n % 2 = 0 THEN Num(1) ELSE Num(-1))
        ELSE IF b.n > 0 THEN PowNat(a, b.n, Num(1))
        ELSE Div(Num(1), PowNat(a, -b.n, Num(1)))

(***************************************************************************)
(* The pure evaluator.                                                     *)
(***************************************************************************)
Value(v) == [ok |-> TRUE, value |-> v]
Error(message) == [ok |-> FALSE, error |-> message]

ProgramStructure ==
    {"program", "declaration", "function", "if_statement", "while_loop", "for_loop",
     "do_while", "switch", "function_call", "array_access", "assignment", "break",
     "continue", "return", "preprocessor", "string", "char", "postfix", "prefix",
     "address_of", "dereference"}

\* A switch whose division truncates the quotient.
ApplyOperatorTruncating(operator, left, right) ==
    IF operator = "/"
    THEN IF right = Num(0) THEN Error(Text("Division by zero", << >>))
         ELSE Value(Floor(Div(left, right)))
    ELSE IF operator = "+" THEN Value(Add(left, right))
    ELSE IF operator = "-" THEN Value(Sub(left, right))
    ELSE IF operator = "*" THEN Value(Mul(left, right))
    ELSE IF operator = "%" THEN Value(Mod(left, right))
    ELSE IF operator = "^" THEN Value(Pow(left, right))
    ELSE IF operator = "unary_neg" THEN Value(Neg(right))
    ELSE IF operator = "unary_pos" THEN Value(right)
    ELSE Error(Text("Unknown operator: ${node.operator}", << operator >>))

\* The switch of evaluateAST on the operator of a binary_op node.
ApplyOperator(operator, left, right) ==
    IF operator = "+" THEN Value(Add(left, right))
    ELSE IF operator = "-" THEN Value(Sub(left, right))
    ELSE IF operator = "*" THEN Value(Mul(left, right))
    ELSE IF operator = "/"
         THEN IF right = Num(0) THEN Error(Text("Division by zero", << >>))
              ELSE Value(Div(left, right))
    ELSE IF operator = "%" THEN Value(Mod(left, right))
    ELSE IF operator = "^" THEN Value(Pow(left, right))
    ELSE IF operator = "unary_neg" THEN Value(Neg(right))
    ELSE IF operator = "unary_pos" THEN Value(right)
    ELSE Error(Text("Unknown operator: ${node.operator}", << operator >>))

\* An evaluator that reads an identifier as 0.
RECURSIVE evaluateASTLenient(_)
evaluateASTLenient(node) ==
    IF node.type = "number"
    THEN Value(IF Falsy(Get(node, "value")) THEN Num(0) ELSE node.value)
    ELSE IF node.type = "identifier" THEN Value(Num(0))
    ELSE IF node.type = "binary_op" /\ Has(node, "left") /\ Has(node, "right")
         THEN LET left == evaluateASTLenient(node.left)
              IN  IF ~left.ok THEN left
                  ELSE LET right == evaluateASTLenient(node.right)
                       IN  IF ~right.ok THEN right
                           ELSE ApplyOperator(node.operator, left.value, right.value)
    ELSE IF node.type \in ProgramStructure
         THEN Error(Text("Cannot evaluate C program structure - this parser focuses on syntax analysis",
                         << >>))
    ELSE Error(Text("Invalid AST node type: ${node.type}", << node.type >>))

RECURSIVE evaluateAST(_)
evaluateAST(node) ==
    IF node.type = "number"
    THEN Value(IF Falsy(Get(node, "value")) THEN Num(0) ELSE node.value)
    ELSE IF node.type = "identifier"
         THEN Error(Text("Cannot evaluate identifier '${node.value}' without variable context",
                         node.value))
    ELSE IF node.type = "binary_op" /\ Has(node, "left") /\ Has(node, "right")
         THEN LET left == evaluateAST(node.left)
              IN  IF ~left.ok THEN left
                  ELSE LET right == evaluateAST(node.right)
                       IN  IF ~right.ok THEN right
                           ELSE ApplyOperator(node.operator, left.value, right.value)
    ELSE IF node.type \in ProgramStructure
         THEN Error(Text("Cannot evaluate C program structure - this parser focuses on syntax analysis",
                         << >>))
    ELSE Error(Text("Invalid AST node type: ${node.type}", << node.type >>))

(***************************************************************************)
(* Values of the variables of the components a specification does not run. *)
(***************************************************************************)
LexIdle == input = << >> /\ position = 0 /\ tokens = << >> /\ lexpc = "idle"
ParseIdle ==
    parsepc = "idle" /\ parseResult = Null /\ evalResult = Null /\ evaluationData = Null
ExecIdle ==
    /\ tree = Null /\ variables = << >> /\ functions = << >> /\ output = << >>
    /\ returnValue = Null /\ breakFlag = FALSE /\ continueFlag = FALSE
    /\ ctl = Null /\ kont = << >> /\ execResult = Null

\* The sequences over S of length at most n.
SeqsUpTo(S, n) == UNION {[1..k -> S] : k \in 0..n}

(***************************************************************************)
(* LexSpec: new Lexer(source).tokenize(), one step per iteration of the    *)
(* loop of tokenize.                                                       *)
(***************************************************************************)
LexAlphabet == {"/", "*", "\"", "'", "\\", "#", "\n", " ", "a", "1", ".", "+", "=", "@"}

CuratedLexSources == {
    <<"i","n","t"," ","x"," ","="," ","5",";">>,
    <<"a","-",">","b">>,
    <<"a"," ","&","&"," ","b"," ","|","|"," ","!","c">>,
    <<"x"," ","+","="," ","1",";"," ","y","-","-",";"," ","z","+","+">>,
    <<"&","p">>,
    <<"a"," ","<","="," ","b">>,
    <<"a"," ","<"," ","b">>,
    <<"#","i","n","c","l","u","d","e"," ","<","s","t","d","i","o",".","h",">","\n","i","n","t">>,
    <<"/","*"," ","c"," ","*","/"," ","1">>,
    <<"/","/"," ","c","\n","2">>,
    <<"'","a","'">>,
    <<"\"","h","i","\\","n","\"">>,
    <<"a"," ","%"," ","b">>,
    <<"[","1","]","{","2","}","(","3",")",",",".">>,
    <<"x"," ","@"," ","y">>,
    <<"/","*","a">>,
    <<"\"","a","b">>,
    <<"\"","\\","\"","a","\"">>,
    <<"'","\\","'","'">>,
    <<"'","\\","'","a">>,
    <<" ","\t","1",".","5",".","2","\r","\n">> }

LexSources == SeqsUpTo(LexAlphabet, MaxLexLen) \cup CuratedLexSources

\* The constructor of Lexer: input is the trimmed text, position is 0.
LexInit ==
    /\ source \in LexSources
    /\ input = Trim(source)
    /\ position = 0
    /\ tokens = << >>
    /\ lexpc = "scan"
    /\ ParseIdle
    /\ ExecIdle

\* An iteration of the loop of tokenize that takes one of the given branches.
LexBranch(branches) ==
    /\ lexpc = "scan"
    /\ position < Len(input)
    /\ LET s == LexStep(input, position)
       IN  /\ s.branch \in branches
           /\ position' = s.pos
           /\ tokens' = tokens \o s.toks
    /\ UNCHANGED << source, input, lexpc >>
    /\ UNCHANGED parseVars
    /\ UNCHANGED execVars

SkipWhitespace ==
    /\ lexpc = "scan"
    /\ LexBranch({"whitespace"})
ReadPreprocessor ==
    /\ lexpc = "scan"
    /\ LexBranch({"PREPROCESSOR"})
ReadString ==
    /\ lexpc = "scan"
    /\ LexBranch({"STRING"})
ReadChar ==
    /\ lexpc = "scan"
    /\ LexBranch({"CHAR"})
SkipLineComment ==
    /\ lexpc = "scan"
    /\ LexBranch({"line_comment"})
SkipMultiLineComment ==
    /\ lexpc = "scan"
    /\ LexBranch({"block_comment"})
ReadNumber ==
    /\ lexpc = "scan"
    /\ LexBranch({"NUMBER"})
ReadIdentifier ==
    /\ lexpc = "scan"
    /\ LexBranch({"KEYWORD", "IDENTIFIER"})
ReadIncrement ==
    /\ lexpc = "scan"
    /\ LexBranch({"INCREMENT"})
ReadDecrement ==
    /\ lexpc = "scan"
    /\ LexBranch({"DECREMENT"})
ReadCompoundAssign ==
    /\ lexpc = "scan"
    /\ LexBranch({"COMPOUND_ASSIGN"})
ReadArrow ==
    /\ lexpc = "scan"
    /\ LexBranch({"ARROW"})
ReadComparison ==
    /\ lexpc = "scan"
    /\ LexBranch({"COMPARISON"})
ReadLogical ==
    /\ lexpc = "scan"
    /\ LexBranch({"LOGICAL"})
ReadAssign ==
    /\ lexpc = "scan"
    /\ LexBranch({"ASSIGN"})
ReadAmpersand ==
    /\ lexpc = "scan"
    /\ LexBranch({"AMPERSAND"})
ReadOperator ==
    /\ lexpc = "scan"
    /\ LexBranch({"OPERATOR"})
ReadDelimiter ==
    /\ lexpc = "scan"
    /\ LexBranch({DelimiterType(c) : c \in Delimiters})
ReadInvalid ==
    /\ lexpc = "scan"
    /\ LexBranch({"INVALID"})

\* The end of tokenize: the loop is over, the EOF token is pushed.
PushEOF ==
    /\ lexpc = "scan"
    /\ position >= Len(input)
    /\ tokens' = Append(tokens, Token("EOF", << >>, position))
    /\ lexpc' = "done"
    /\ UNCHANGED << source, input, position >>
    /\ UNCHANGED parseVars
    /\ UNCHANGED execVars

LexNext ==
    \/ SkipWhitespace \/ ReadPreprocessor \/ ReadString \/ ReadChar
    \/ SkipLineComment \/ SkipMultiLineComment \/ ReadNumber \/ ReadIdentifier
    \/ ReadIncrement \/ ReadDecrement \/ ReadCompoundAssign \/ ReadArrow
    \/ ReadComparison \/ ReadLogical \/ ReadAssign \/ ReadAmpersand
    \/ ReadOperator \/ ReadDelimiter \/ ReadInvalid \/ PushEOF

LexSpec == LexInit /\ [][LexNext]_vars

\* C3: tokenize always returns: every iteration of its loop moves the cursor
\* forward and never past the end of the trimmed input, and the token list it
\* returns holds exactly one EOF token, which is the last token and whose
\* position is the length of the trimmed input.
C3_TokenizeEndsWithOneEof ==
    /\ input = Trim(source)
    /\ position <= Len(input)
    /\ (lexpc = "scan" /\ position < Len(input)) => LexStep(input, position).pos > position
    /\ lexpc = "done" =>
          /\ tokens # << >>
          /\ tokens[Len(tokens)] = Token("EOF", << >>, Len(Trim(source)))
          /\ Cardinality({i \in DOMAIN tokens : tokens[i].type = "EOF"}) = 1
          /\ tokens = Tokenize(source)

\* tokenize has returned for a text with surrounding whitespace that ends in
\* an unterminated string whose last character is a backslash.
C3_Witness ==
    /\ lexpc = "done"
    /\ Len(input) < Len(source)
    /\ Len(tokens) = 2
    /\ tokens[1].type = "STRING"
    /\ tokens[1].value = << "\"", "\\" >>
    /\ tokens[2] = Token("EOF", << >>, 2)

(***************************************************************************)
(* ParseSpec: parseExpression(source), then evaluateAST on the tree of a   *)
(* successful parse.                                                       *)
(***************************************************************************)
MaxLexemes == 3

RECURSIVE Flatten(_)
Flatten(ss) == IF ss = << >> THEN << >> ELSE Head(ss) \o Flatten(Tail(ss))

ParseLexemes ==
    { << "2" >>, << "3" >>, << "+" >>, << "*" >>, << "^" >>, << "(" >>, << ")" >>,
      << "x" >>, << ";" >>, << "=" >>, << " " >>, << "@" >>, << ":" >> }

LexemeSources == {Flatten(ls) : ls \in SeqsUpTo(ParseLexemes, MaxLexemes)}

Literals == { << "2" >>, << "3" >>, << "4" >>, << "1", ".", "5" >> }

BinaryOperators ==
    { << "+" >>, << "-" >>, << "*" >>, << "/" >>, << "%" >>, << "^" >>, << "<" >>, << ">" >>,
      << "<", "=" >>, << ">", "=" >>, << "=", "=" >>, << "!", "=" >>, << "&", "&" >>,
      << "|", "|" >> }

\* The texts `a op1 b op2 c`.
ThreeOperandSources ==
    { a \o << " " >> \o op1 \o << " " >> \o b \o << " " >> \o op2 \o << " " >> \o c :
        a \in Literals, b \in Literals, c \in Literals,
        op1 \in BinaryOperators, op2 \in BinaryOperators }

\* The texts `prefix ( a op b` and `prefix ( a`, whose parenthesis is never closed.
UnclosedSources ==
    LET prefixes == { << >>, << " ", " " >>, << "2", " ", "*", " " >>,
                      << "4", " ", "-", " ", "3", " ", "+", " " >> }
    IN  { pre \o << "(" >> \o a \o << " " >> \o op \o << " " >> \o b :
            pre \in prefixes, a \in Literals, b \in Literals, op \in BinaryOperators }
        \cup { pre \o << "(" >> \o a : pre \in prefixes, a \in Literals }

CuratedSources == {
    \* int main() { int x = 5; int y = 3; printf("%d", x + y); return x * y; }
    <<"i","n","t"," ","m","a","i","n","(",")"," ","{"," ","i","n","t"," ","x"," ","="," ","5",";"," ","i","n","t"," ","y"," ","="," ","3",";"," ","p","r","i","n","t","f","(","\"","%","d","\"",","," ","x"," ","+"," ","y",")",";"," ","r","e","t","u","r","n"," ","x"," ","*"," ","y",";"," ","}">>,
    \* #include <stdio.h>\nint main() { return 42; }
    <<"#","i","n","c","l","u","d","e"," ","<","s","t","d","i","o",".","h",">","\n","i","n","t"," ","m","a","i","n","(",")"," ","{"," ","r","e","t","u","r","n"," ","4","2",";"," ","}">>,
    \* for (int i = 0; i < 3; i++) {}
    <<"f","o","r"," ","(","i","n","t"," ","i"," ","="," ","0",";"," ","i"," ","<"," ","3",";"," ","i","+","+",")"," ","{","}">>,
    \* for (i = 0; i < 3; i = i + 1) { x = x + i; }
    <<"f","o","r"," ","(","i"," ","="," ","0",";"," ","i"," ","<"," ","3",";"," ","i"," ","="," ","i"," ","+"," ","1",")"," ","{"," ","x"," ","="," ","x"," ","+"," ","i",";"," ","}">>,
    \* for (;;) {}
    <<"f","o","r"," ","(",";",";",")"," ","{","}">>,
    \* while (1) {}
    <<"w","h","i","l","e"," ","(","1",")"," ","{","}">>,
    \* while (x < 3) x++;
    <<"w","h","i","l","e"," ","(","x"," ","<"," ","3",")"," ","x","+","+",";">>,
    \* do { x++; } while (x < 3);
    <<"d","o"," ","{"," ","x","+","+",";"," ","}"," ","w","h","i","l","e"," ","(","x"," ","<"," ","3",")",";">>,
    \* if (x > 0) { y = 1; } else { y = 2; }
    <<"i","f"," ","(","x"," ",">"," ","0",")"," ","{"," ","y"," ","="," ","1",";"," ","}"," ","e","l","s","e"," ","{"," ","y"," ","="," ","2",";"," ","}">>,
    \* if (x) y = 1;
    <<"i","f"," ","(","x",")"," ","y"," ","="," ","1",";">>,
    \* switch (x) { case 1; y = 1; break; default; y = 2; }
    <<"s","w","i","t","c","h"," ","(","x",")"," ","{"," ","c","a","s","e"," ","1",";"," ","y"," ","="," ","1",";"," ","b","r","e","a","k",";"," ","d","e","f","a","u","l","t",";"," ","y"," ","="," ","2",";"," ","}">>,
    \* switch (x) { case 1: break; }
    <<"s","w","i","t","c","h"," ","(","x",")"," ","{"," ","c","a","s","e"," ","1",":"," ","b","r","e","a","k",";"," ","}">>,
    \* switch (x) { case 1 y = 1; }
    <<"s","w","i","t","c","h"," ","(","x",")"," ","{"," ","c","a","s","e"," ","1"," ","y"," ","="," ","1",";"," ","}">>,
    \* int x = 5;
    <<"i","n","t"," ","x"," ","="," ","5",";">>,
    \* int x
    <<"i","n","t"," ","x">>,
    \* int ;
    <<"i","n","t"," ",";">>,
    \* int a[3] = {1, 2, 3};
    <<"i","n","t"," ","a","[","3","]"," ","="," ","{","1",","," ","2",","," ","3","}",";">>,
    \* int *p = &x;
    <<"i","n","t"," ","*","p"," ","="," ","&","x",";">>,
    \* int add(int a, int b) { return a + b; }
    <<"i","n","t"," ","a","d","d","(","i","n","t"," ","a",","," ","i","n","t"," ","b",")"," ","{"," ","r","e","t","u","r","n"," ","a"," ","+"," ","b",";"," ","}">>,
    \* int main( { }
    <<"i","n","t"," ","m","a","i","n","("," ","{"," ","}">>,
    \* x = 5;
    <<"x"," ","="," ","5",";">>,
    \* x += 2;
    <<"x"," ","+","="," ","2",";">>,
    \* a[0] = 1;
    <<"a","[","0","]"," ","="," ","1",";">>,
    \* f(1, 2);
    <<"f","(","1",","," ","2",")",";">>,
    \* f((2)
    <<"f","(","(","2",")">>,
    \* return;
    <<"r","e","t","u","r","n",";">>,
    \* break; continue;
    <<"b","r","e","a","k",";"," ","c","o","n","t","i","n","u","e",";">>,
    \* ++x; --x; x--;
    <<"+","+","x",";"," ","-","-","x",";"," ","x","-","-",";">>,
    \* { x = 1;
    <<"{"," ","x"," ","="," ","1",";">>,
    \* -x + !y
    <<"-","x"," ","+"," ","!","y">>,
    \* &x + *p
    <<"&","x"," ","+"," ","*","p">>,
    \* "str" + 'c'
    <<"\"","s","t","r","\""," ","+"," ","'","c","'">>,
    \* p->x
    <<"p","-",">","x">>,
    \* // c\n1 + 1
    <<"/","/"," ","c","\n","1"," ","+"," ","1">>,
    \* /* c */ 2 * 2
    <<"/","*"," ","c"," ","*","/"," ","2"," ","*"," ","2">>,
    \* 2 + 3 )
    <<"2"," ","+"," ","3"," ",")">>,
    \* 2 +
    <<"2"," ","+">>,
    \* ()
    <<"(",")">>,
    \* (2 + (3
    <<"(","2"," ","+"," ","(","3">>,
    \* (2 ] )
    <<"(","2"," ","]"," ",")">>,
    \* ((2 + 3) * 4
    <<"(","(","2"," ","+"," ","3",")"," ","*"," ","4">>,
    \* 2 * (3 + 4) - 1
    <<"2"," ","*"," ","(","3"," ","+"," ","4",")"," ","-"," ","1">>,
    \* 6 / 0
    <<"6"," ","/"," ","0">>,
    \* 7 % 0
    <<"7"," ","%"," ","0">>,
    \* 0 ^ 0
    <<"0"," ","^"," ","0">>,
    \* 2 ^ -1
    <<"2"," ","^"," ","-","1">>,
    \* if x
    <<"i","f"," ","x">>,
    \* while (
    <<"w","h","i","l","e"," ","(">>,
    \* x @ : y
    <<"x"," ","@"," ",":"," ","y">>,
    \* ( : @
    <<"("," ",":"," ","@">> }

\* for (a; b   a for header that ends after its condition.
UnfinishedForHeader == <<"f","o","r"," ","(","a",";"," ","b">>

\* for (a; b; c   a for header that ends after its increment.
UnclosedForHeader == <<"f","o","r"," ","(","a",";"," ","b",";"," ","c">>

\* for (i = 0; i < 3; i++) {} and the same loop with clauses left out.
ForHeaders ==
    << [text |-> <<"f","o","r"," ","(","i"," ","="," ","0",";"," ","i"," ","<"," ","3",";"," ","i","+","+",")"," ","{","}">>,
        clauses |-> {"init", "condition", "increment"}],
       [text |-> <<"f","o","r"," ","(",";"," ","i"," ","<"," ","3",";"," ","i","+","+",")"," ","{","}">>,
        clauses |-> {"condition", "increment"}],
       [text |-> <<"f","o","r"," ","(","i"," ","="," ","0",";"," ",";"," ","i","+","+",")"," ","{","}">>,
        clauses |-> {"init", "increment"}],
       [text |-> <<"f","o","r"," ","(","i"," ","="," ","0",";"," ","i"," ","<"," ","3",";"," ",")"," ","{","}">>,
        clauses |-> {"init", "condition"}],
       [text |-> <<"f","o","r"," ","(",";",";",")"," ","{","}">>,
        clauses |-> {}] >>

\* Further texts: switches, divisions, preprocessor lines, for headers.
FurtherSources == {
    \* switch (x) { case 1 y = 1; case 2 z = 2; }
    <<"s","w","i","t","c","h"," ","(","x",")"," ","{"," ","c","a","s","e"," ","1"," ","y"," ","="," ","1",";"," ","c","a","s","e"," ","2"," ","z"," ","="," ","2",";"," ","}">>,
    \* switch (x) { case 1: y = 1; break; case 2: y = 2; break; default: y = 0; }
    <<"s","w","i","t","c","h"," ","(","x",")"," ","{"," ","c","a","s","e"," ","1",":"," ","y"," ","="," ","1",";"," ","b","r","e","a","k",";"," ","c","a","s","e"," ","2",":"," ","y"," ","="," ","2",";"," ","b","r","e","a","k",";"," ","d","e","f","a","u","l","t",":"," ","y"," ","="," ","0",";"," ","}">>,
    \* 5 / 0
    <<"5"," ","/"," ","0">>,
    \* 5 / (2 - 2)
    <<"5"," ","/"," ","(","2"," ","-"," ","2",")">>,
    \* 3 / 2
    <<"3"," ","/"," ","2">>,
    \* 7 / 2
    <<"7"," ","/"," ","2">>,
    \* 1 / 4
    <<"1"," ","/"," ","4">>,
    \* 0 / 5
    <<"0"," ","/"," ","5">>,
    \* (3 / 2) * 4
    <<"(","3"," ","/"," ","2",")"," ","*"," ","4">>,
    \* #include <stdio.h>
    <<"#","i","n","c","l","u","d","e"," ","<","s","t","d","i","o",".","h",">">>,
    \* #define N
    <<"#","d","e","f","i","n","e"," ","N">>,
    \* for (; i < 3; i++) {}
    <<"f","o","r"," ","(",";"," ","i"," ","<"," ","3",";"," ","i","+","+",")"," ","{","}">>,
    \* for (i = 0; ; i++) {}
    <<"f","o","r"," ","(","i"," ","="," ","0",";"," ",";"," ","i","+","+",")"," ","{","}">>,
    \* for (i = 0; i < 3; ) {}
    <<"f","o","r"," ","(","i"," ","="," ","0",";"," ","i"," ","<"," ","3",";"," ",")"," ","{","}">>,
    \*  \t\n 
    <<" ","\t","\n"," ">>,
    \* 2 + x
    <<"2"," ","+"," ","x">>,
    \* 2 3
    <<"2"," ","3">>,
    \* x = 5; )
    <<"x"," ","="," ","5",";"," ",")">> }
    \cup {ForHeaders[i].text : i \in 1..Len(ForHeaders)}
    \cup {UnfinishedForHeader, UnclosedForHeader}

ParseSources ==
    LexemeSources \cup ThreeOperandSources \cup UnclosedSources \cup CuratedSources
    \cup FurtherSources

ParseInit ==
    /\ source \in ParseSources
    /\ parsepc = "start"
    /\ parseResult = Null
    /\ evalResult = Null
    /\ evaluationData = Null
    /\ LexIdle
    /\ ExecIdle

\* parseExpression on a text that is empty once trimmed.
RejectEmpty ==
    /\ parsepc = "start"
    /\ Trim(source) = << >>
    /\ parseResult' = parseExpression(source)
    /\ parsepc' = "parsed"
    /\ UNCHANGED << source, evalResult, evaluationData >>
    /\ UNCHANGED lexVars
    /\ UNCHANGED execVars

\* new Lexer(expression).tokenize() in parseExpression.
TokenizeSource ==
    /\ parsepc = "start"
    /\ Trim(source) # << >>
    /\ input' = Trim(source)
    /\ tokens' = Tokenize(source)
    /\ position' = Len(Trim(source))
    /\ lexpc' = "done"
    /\ parsepc' = "tokenized"
    /\ UNCHANGED << source, parseResult, evalResult, evaluationData >>
    /\ UNCHANGED execVars

\* parse() returning on the check for an INVALID token.
RejectInvalidCharacter ==
    /\ parsepc = "tokenized"
    /\ invalidCharacterCheck(tokens) # << >>
    /\ parseResult' = Failure(invalidCharacterCheck(tokens))
    /\ parsepc' = "parsed"
    /\ UNCHANGED << source, evalResult, evaluationData >>
    /\ UNCHANGED lexVars
    /\ UNCHANGED execVars

\* parse() in program mode.
ParseProgram ==
    /\ parsepc = "tokenized"
    /\ invalidCharacterCheck(tokens) = << >>
    /\ hasCFeatures(tokens)
    /\ parseResult' = parseOutcome(tokens, Production("program", tokens, [cur |-> 0, errs |-> << >>], << >>))
    /\ parsepc' = "parsed"
    /\ UNCHANGED << source, evalResult, evaluationData >>
    /\ UNCHANGED lexVars
    /\ UNCHANGED execVars

\* parse() in expression mode.
ParseArithmetic ==
    /\ parsepc = "tokenized"
    /\ invalidCharacterCheck(tokens) = << >>
    /\ ~hasCFeatures(tokens)
    /\ parseResult' = parseOutcome(tokens, Production("expression", tokens, [cur |-> 0, errs |-> << >>], << >>))
    /\ parsepc' = "parsed"
    /\ UNCHANGED << source, evalResult, evaluationData >>
    /\ UNCHANGED lexVars
    /\ UNCHANGED execVars

\* evaluateAST on the tree of a successful parse.
Evaluate ==
    /\ parsepc = "parsed"
    /\ parseResult.success
    /\ evalResult' = evaluateAST(parseResult.tree)
    /\ parsepc' = "evaluated"
    /\ UNCHANGED << source, parseResult, evaluationData >>
    /\ UNCHANGED lexVars
    /\ UNCHANGED execVars

ParseNext ==
    \/ RejectEmpty \/ TokenizeSource \/ RejectInvalidCharacter
    \/ ParseProgram \/ ParseArithmetic \/ Evaluate

ParseSpec == ParseInit /\ [][ParseNext]_vars

Parsed == parsepc \in {"parsed", "evaluated"}

\* C4: every ParseResult is discriminated: with success the tree is present
\* and no error list is; without success a non-empty error list is present
\* and no tree is.
C4_ParseResultDiscriminated ==
    Parsed =>
        /\ parseResult = parseExpression(source)
        /\ parseResult.success =>
              Has(parseResult, "tree") /\ ~Has(parseResult, "errors")
        /\ ~parseResult.success =>
              /\ Has(parseResult, "errors")
              /\ Len(parseResult.errors) > 0
              /\ ~Has(parseResult, "tree")

\* A switch whose case label lacks its separator: the production records the
\* error without throwing, and the parse fails on the recorded error.
C4_Witness ==
    /\ Parsed
    /\ source = 
        <<"s","w","i","t","c","h"," ","(","x",")"," ","{"," ","c","a","s","e"," ","1"," ","y"," ","="," ","1",";"," ","}">>
    /\ ~parseResult.success
    /\ Len(parseResult.errors) = 1
    /\ parseResult.errors[1].message = Text("Expected : after case value", << >>)

\* The characters that start a branch of the tokenizer other than the last one.
RecognizedCharacters ==
    Whitespace \cup Digit \cup Letter \cup Delimiters
        \cup {"#", "\"", "'", "/", "+", "-", "*", "%", "^", "=", "!", "<", ">", "&"}

InvalidTokens == {i \in 1..Len(tokens) : tokens[i].type = "INVALID"}
FirstInvalidToken == tokens[CHOOSE i \in InvalidTokens : \A j \in InvalidTokens : i <= j]

\* C5: an INVALID token carries the unrecognized character found at its
\* position; a text without quotes, # or / yields an INVALID token at every
\* unrecognized character; and when the token list holds an INVALID token the
\* parse fails with exactly one error, 'Invalid character', at the first one.
C5_InvalidCharacterRejected ==
    /\ lexpc = "done" =>
          /\ \A i \in InvalidTokens :
                /\ tokens[i].value = << At(input, tokens[i].position) >>
                /\ At(input, tokens[i].position) \notin RecognizedCharacters
          /\ (\A q \in 1..Len(input) : input[q] \notin {"\"", "'", "#", "/"}) =>
                \A q \in 1..Len(input) :
                    input[q] \notin RecognizedCharacters \cup {"|"} =>
                        \E i \in InvalidTokens : tokens[i] = Token("INVALID", << input[q] >>, q - 1)
    /\ (Parsed /\ lexpc = "done" /\ InvalidTokens # {}) =>
          /\ ~parseResult.success
          /\ Len(parseResult.errors) = 1
          /\ parseResult.errors[1].message =
                 Text("Invalid character '${invalidToken.value}'", FirstInvalidToken.value)
          /\ parseResult.errors[1].position = FirstInvalidToken.position

\* `( : @` has two unrecognized characters after an unclosed parenthesis: the
\* parse reports the first of them and nothing else.
C5_Witness ==
    /\ Parsed
    /\ source = <<"("," ",":"," ","@">>
    /\ Cardinality(InvalidTokens) = 2
    /\ parseResult = Failure(<< ParseError(Text("Invalid character '${invalidToken.value}'", << ":" >>), 2,
                                           Text("Remove '${invalidToken.value}' or use valid characters", << ":" >>)) >>)

\* The precedence level of a binary operator token, 0 for any other token.
Level(token) ==
    IF token.type = "LOGICAL" /\ token.value = << "|", "|" >> THEN 1
    ELSE IF token.type = "LOGICAL" /\ token.value = << "&", "&" >> THEN 2
    ELSE IF token.type = "COMPARISON" /\ token.value \in {<< "=", "=" >>, << "!", "=" >>} THEN 3
    ELSE IF token.type = "COMPARISON" THEN 4
    ELSE IF token.type = "OPERATOR" /\ token.value \in {<< "+" >>, << "-" >>} THEN 5
    ELSE IF token.type = "OPERATOR" /\ token.value \in {<< "*" >>, << "/" >>, << "%" >>} THEN 6
    ELSE IF token.type = "OPERATOR" /\ token.value = << "^" >> THEN 7
    ELSE 0

\* The token list of `a op1 b op2 c` for numeric literals a, b and c.
ThreeOperands ==
    /\ lexpc = "done"
    /\ Len(tokens) = 6
    /\ \A i \in {1, 3, 5} : tokens[i].type = "NUMBER"
    /\ \A i \in {2, 4} : Level(tokens[i]) > 0
    /\ tokens[6].type = "EOF"

Operand(i) == NumberNode(parseFloat(tokens[i].value))

\* op2(op1(a, b), c)
LeftGrouped ==
    BinaryOp(OperatorName(tokens[4].value),
             BinaryOp(OperatorName(tokens[2].value), Operand(1), Operand(3)),
             Operand(5))

\* op1(a, op2(b, c))
RightGrouped ==
    BinaryOp(OperatorName(tokens[2].value),
             Operand(1),
             BinaryOp(OperatorName(tokens[4].value), Operand(3), Operand(5)))

\* C8: a multiplicative operator binds tighter than an additive one: `a + b * c`
\* parses to +(a, *(b, c)) and `a * b + c` to +(*(a, b), c), and the tree of
\* `2 + 3 * 4` evaluates to 14.
C8_MultiplicativeBindsTighter ==
    /\ (Parsed /\ ThreeOperands /\ Level(tokens[2]) = 5 /\ Level(tokens[4]) = 6) =>
          parseResult = Success(RightGrouped)
    /\ (Parsed /\ ThreeOperands /\ Level(tokens[2]) = 6 /\ Level(tokens[4]) = 5) =>
          parseResult = Success(LeftGrouped)
    /\ (parsepc = "evaluated" /\ source = <<"2"," ","+"," ","3"," ","*"," ","4">>) =>
          evalResult = Value(Num(14))

\* `2 + 3 * 4` was parsed and evaluated.
C8_Witness ==
    /\ parsepc = "evaluated"
    /\ source = <<"2"," ","+"," ","3"," ","*"," ","4">>
    /\ parseResult.tree.operator = "+"
    /\ parseResult.tree.right.operator = "*"
    /\ evalResult = Value(Num(14))

\* C9: the power operator is right-associative: `a ^ b ^ c` parses to
\* ^(a, ^(b, c)) and the tree of `2 ^ 3 ^ 2` evaluates to 512; two operators of
\* any other level group to the left: `a - b - c` parses to -(-(a, b), c).
C9_PowerRightAssociative ==
    /\ (Parsed /\ ThreeOperands /\ Level(tokens[2]) = 7 /\ Level(tokens[4]) = 7) =>
          parseResult = Success(RightGrouped)
    /\ (Parsed /\ ThreeOperands /\ Level(tokens[2]) = Level(tokens[4]) /\ Level(tokens[2]) # 7) =>
          parseResult = Success(LeftGrouped)
    /\ (parsepc = "evaluated" /\ source = <<"2"," ","^"," ","3"," ","^"," ","2">>) =>
          evalResult = Value(Num(512))

\* `2 ^ 3 ^ 2` was parsed and evaluated.
C9_Witness ==
    /\ parsepc = "evaluated"
    /\ source = <<"2"," ","^"," ","3"," ","^"," ","2">>
    /\ parseResult.tree.operator = "^"
    /\ parseResult.tree.right.operator = "^"
    /\ evalResult = Value(Num(512))

\* The token list `n op n ... op ( n op ... n` then EOF: the parenthesis at
\* index k opens an expression that is complete and is never closed.
UnclosedAt(k) ==
    /\ lexpc = "done"
    /\ k \in 1..(Len(tokens) - 2)
    /\ k % 2 = 1
    /\ Len(tokens) % 2 = 1
    /\ tokens[k].type = "LPAREN"
    /\ \A i \in 1..(k - 1) :
          IF i % 2 = 1 THEN tokens[i].type = "NUMBER" ELSE Level(tokens[i]) > 0
    /\ \A i \in (k + 1)..(Len(tokens) - 1) :
          IF i % 2 = 0 THEN tokens[i].type = "NUMBER" ELSE Level(tokens[i]) > 0
    /\ tokens[Len(tokens)].type = "EOF"

\* C10: a parenthesized expression that is not followed by ) fails the parse
\* with 'Missing closing parenthesis' at the offset of its opening parenthesis,
\* not at the token where the ) was expected: offset 0 for `(2 + 3`.
C10_MissingParenthesisAtOpening ==
    Parsed =>
        /\ \A k \in 1..Len(tokens) :
              UnclosedAt(k) =>
                  /\ ~parseResult.success
                  /\ Len(parseResult.errors) = 1
                  /\ parseResult.errors[1].message = Text("Missing closing parenthesis", << >>)
                  /\ parseResult.errors[1].position = tokens[k].position
                  /\ parseResult.errors[1].position # tokens[Len(tokens)].position
        /\ ~parseResult.success =>
              \A e \in 1..Len(parseResult.errors) :
                  parseResult.errors[e].message = Text("Missing closing parenthesis", << >>) =>
                      \E i \in 1..Len(tokens) :
                          /\ tokens[i].type = "LPAREN"
                          /\ tokens[i].position = parseResult.errors[e].position
        /\ source = <<"(","2"," ","+"," ","3">> =>
              /\ ~parseResult.success
              /\ parseResult.errors[1].message = Text("Missing closing parenthesis", << >>)
              /\ parseResult.errors[1].position = 0

\* `2 * (3 + 4` was parsed: the error is at offset 4, the parenthesis, and the
\* ) was expected at offset 10.
C10_Witness ==
    /\ Parsed
    /\ source = <<"2"," ","*"," ","(","3"," ","+"," ","4">>
    /\ UnclosedAt(3)
    /\ parseResult.errors[1].message = Text("Missing closing parenthesis", << >>)
    /\ parseResult.errors[1].position = 4
    /\ tokens[Len(tokens)].position = 10

(***************************************************************************)
(* The Interpreter.  Its recursion is run one step at a time: ctl is the   *)
(* node interpretNode was called on, the value it returned or the error it *)
(* threw, and kont holds the activations that wait for that value, the     *)
(* innermost last.                                                         *)
\* C11: parsing fails fast: once a structural error has been recorded the
\* parse aborts, so no ParseResult carries more than one error.
C11_FailFast ==
    (Parsed /\ ~parseResult.success) => Len(parseResult.errors) <= 1

\* The switch with two case labels lacking their terminator was parsed to its
\* end and reported one error per case.
C11_Witness ==
    /\ Parsed
    /\ source = << "s", "w", "i", "t", "c", "h", " ", "(", "x", ")", " ", "{", " " >>
                \o << "c", "a", "s", "e", " ", "1", " ", "y", " ", "=", " ", "1", ";", " " >>
                \o << "c", "a", "s", "e", " ", "2", " ", "z", " ", "=", " ", "2", ";", " ", "}" >>
    /\ ~parseResult.success
    /\ Len(parseResult.errors) = 2
    /\ parseResult.errors[1].position = 20
    /\ parseResult.errors[2].position = 34
    /\ \A i \in 1..2 : parseResult.errors[i].message = Text("Expected : after case value", << >>)

\* The top production parse() runs on a token list without INVALID tokens.
TopProduction(toks) ==
    Production(IF hasCFeatures(toks) THEN "program" ELSE "expression", toks,
               [cur |-> 0, errs |-> << >>], << >>)

\* C12: parse never returns success while tokens remain unconsumed: when the
\* top production returns with the cursor not at the EOF token, the result is
\* a failure whose last error is 'Unexpected token' at the position of the
\* first unconsumed token, after the errors the production recorded.
C12_TrailingTokensRejected ==
    (Parsed /\ tokens # << >> /\ invalidCharacterCheck(tokens) = << >>) =>
        LET r == TopProduction(tokens)
            token == currentToken(tokens, r)
        IN  /\ parseResult.success => (r.ok /\ token.type = "EOF")
            /\ (r.ok /\ token.type # "EOF") =>
                  /\ ~parseResult.success
                  /\ Len(parseResult.errors) = Len(r.errs) + 1
                  /\ SubSeq(parseResult.errors, 1, Len(r.errs)) = r.errs
                  /\ parseResult.errors[Len(parseResult.errors)].message
                        = Text("Unexpected token '${token.value}'", token.value)
                  /\ parseResult.errors[Len(parseResult.errors)].position = token.position

\* `2 3` was parsed: the expression ended at 2 and the 3 at offset 2 is reported.
C12_Witness ==
    /\ Parsed
    /\ source = << "2", " ", "3" >>
    /\ TopProduction(tokens).ok
    /\ ~parseResult.success
    /\ Len(parseResult.errors) = 1
    /\ parseResult.errors[1].message = Text("Unexpected token '${token.value}'", << "3" >>)
    /\ parseResult.errors[1].position = 2

\* The result of parse() in the mode chosen by the presence of a token of one
\* of the given types, and the root of a successful parse being a program
\* exactly in program mode.
ModeChosenBy(types) ==
    LET asProgram == \E i \in 1..Len(tokens) : tokens[i].type \in types
        mode == IF asProgram THEN "program" ELSE "expression"
    IN  /\ parseResult = parseOutcome(tokens, Production(mode, tokens, [cur |-> 0, errs |-> << >>], << >>))
        /\ parseResult.success => ((parseResult.tree.type = "program") <=> asProgram)

\* C13 as amended: when no INVALID token is present, parse treats the input as
\* a full program (root of type 'program') if the token stream contains a
\* keyword, semicolon, brace or preprocessor token, and otherwise parses it as
\* a single arithmetic expression (root not a 'program').
C13_GrammarMode ==
    (Parsed /\ tokens # << >> /\ invalidCharacterCheck(tokens) = << >>) =>
        ModeChosenBy({"KEYWORD", "SEMICOLON", "LBRACE", "RBRACE", "PREPROCESSOR"})

\* C13 as stated: program mode if and only if the token stream contains a
\* keyword, semicolon or brace token.
C13_GrammarModeAsStated ==
    (Parsed /\ tokens # << >> /\ invalidCharacterCheck(tokens) = << >>) =>
        ModeChosenBy({"KEYWORD", "SEMICOLON", "LBRACE", "RBRACE"})

\* `#include <stdio.h>` alone, one PREPROCESSOR token and EOF, parsed as a program.
C13_Witness ==
    /\ Parsed
    /\ source = << "#", "i", "n", "c", "l", "u", "d", "e", " ",
                   "<", "s", "t", "d", "i", "o", ".", "h", ">" >>
    /\ Len(tokens) = 2
    /\ tokens[1].type = "PREPROCESSOR"
    /\ parseResult.success
    /\ parseResult.tree.type = "program"
    /\ Len(parseResult.tree.statements) = 1

\* A division node whose operands both evaluate: its value is the error
\* 'Division by zero' when the right operand is 0, and otherwise the exact
\* quotient q, with q * right = left.
DivisionRight(node) ==
    LET left == evaluateAST(node.left)
        right == evaluateAST(node.right)
        result == evaluateAST(node)
    IN  (left.ok /\ right.ok /\ left.value.t = "num" /\ right.value.t = "num") =>
            IF right.value = Num(0)
            THEN result = Error(Text("Division by zero", << >>))
            ELSE /\ result.ok
                 /\ result.value.t = "num" => Mul(result.value, right.value) = left.value
                 /\ result.value.t \in {"num", "out_of_range"}

\* Every division node of the tree is DivisionRight.
RECURSIVE DivisionsRight(_)
DivisionsRight(node) ==
    (node.type = "binary_op" /\ Has(node, "left") /\ Has(node, "right")) =>
        /\ node.operator = "/" => DivisionRight(node)
        /\ DivisionsRight(node.left)
        /\ DivisionsRight(node.right)

\* Some node of the tree does not evaluate.
RECURSIVE SomeNodeFails(_)
SomeNodeFails(node) ==
    \/ ~evaluateAST(node).ok
    \/ /\ node.type = "binary_op" /\ Has(node, "left") /\ Has(node, "right")
       /\ SomeNodeFails(node.left) \/ SomeNodeFails(node.right)

\* C14: evaluateAST fails with 'Division by zero' whenever the right operand
\* of a `/` evaluates to exactly zero, the failure reaching the caller, and for
\* a non-zero right operand the division gives the untruncated quotient.
C14_DivisionByZero ==
    parsepc = "evaluated" =>
        /\ evalResult = evaluateAST(parseResult.tree)
        /\ DivisionsRight(parseResult.tree)
        /\ SomeNodeFails(parseResult.tree) => ~evalResult.ok

\* `5 / (2 - 2)` was evaluated: the right operand is 0 and the result the error.
C14_Witness ==
    /\ parsepc = "evaluated"
    /\ source = << "5", " ", "/", " ", "(", "2", " ", "-", " ", "2", ")" >>
    /\ parseResult.tree.operator = "/"
    /\ evaluateAST(parseResult.tree.right) = Value(Num(0))
    /\ evalResult = Error(Text("Division by zero", << >>))

\* The operators evaluateAST has a case for.
ArithmeticOperators == {"+", "-", "*", "/", "%", "^", "unary_neg", "unary_pos"}

\* A tree made solely of number literals and binary_op nodes of those operators.
RECURSIVE PureArithmetic(_)
PureArithmetic(node) ==
    \/ node.type = "number"
    \/ /\ node.type = "binary_op"
       /\ Has(node, "left") /\ Has(node, "right")
       /\ node.operator \in ArithmeticOperators
       /\ PureArithmetic(node.left)
       /\ PureArithmetic(node.right)

C17_EmptySourceRejected ==
    /\ [](( Parsed /\ Trim(source) = << >>) =>
            /\ parseResult.success = FALSE
            /\ Len(parseResult.errors) = 1
            /\ parseResult.errors[1].message = Text("Empty expression", << >>)
            /\ parseResult.errors[1].position = 0
            /\ ~Has(parseResult, "tree")
            /\ tokens = << >> /\ lexpc = "idle")
    /\ [][(parsepc = "start" /\ Trim(source) = << >>) =>
            (parsepc' = "parsed" /\ tokens' = tokens /\ lexpc' = lexpc)]_vars

\* A source of blanks, a tab and a newline was rejected as empty.
C17_Witness ==
    /\ Parsed
    /\ source = << " ", "\t", "\n", " " >>
    /\ parseResult = Failure(<< ParseError(Text("Empty expression", << >>), 0,
                                Text("Enter an arithmetic expression or C program", << >>)) >>)
    /\ tokens = << >>

FullForLoop == parseExpression(ForHeaders[1].text).tree.statements[1]

\* C19: every clause of a for header can be left out on its own: the loop
\* with no init, with no condition, with no increment, and `for (;;)`, each
\* parses successfully into a for_loop node in which the omitted clause is
\* absent and the other clauses are the ones written.
C19_ForClausesOmissible ==
    \A i \in 1..Len(ForHeaders) :
        (Parsed /\ source = ForHeaders[i].text) =>
            /\ parseResult.success
            /\ Len(parseResult.tree.statements) = 1
            /\ LET loop == parseResult.tree.statements[1]
               IN  /\ loop.type = "for_loop"
                   /\ DOMAIN loop \cap {"init", "condition", "increment"} = ForHeaders[i].clauses
                   /\ \A c \in ForHeaders[i].clauses : loop[c] = FullForLoop[c]
                   /\ loop.body = FullForLoop.body

\* The loop without a condition was parsed: init and increment as written.
C19_Witness ==
    /\ Parsed
    /\ source = ForHeaders[3].text
    /\ parseResult.success
    /\ parseResult.tree.statements[1].type = "for_loop"
    /\ ~Has(parseResult.tree.statements[1], "condition")
    /\ parseResult.tree.statements[1].init = FullForLoop.init
    /\ parseResult.tree.statements[1].increment = FullForLoop.increment

\* switch (x) { case 1: y = 1; break; case 2: y = 2; break; default: y = 0; }
CFormSwitchSource ==
    <<"s","w","i","t","c","h"," ","(","x",")"," ","{"," ","c","a","s","e"," ","1",":"," ","y"," ","="," ","1",";"," ","b","r","e","a","k",";"," ","c","a","s","e"," ","2",":"," ","y"," ","="," ","2",";"," ","b","r","e","a","k",";"," ","d","e","f","a","u","l","t",":"," ","y"," ","="," ","0",";"," ","}">>

\* C20: a switch written in C form, its case labels and its default label
\* ended by a colon and its case bodies holding `break;`, is tokenized
\* without an invalid token and parsed successfully into a switch node with
\* one entry per case, in the order written, and the default statement list.
C20_CFormSwitchParses ==
    (Parsed /\ source = CFormSwitchSource) =>
        /\ \A i \in 1..Len(tokens) : tokens[i].type # "INVALID"
        /\ parseResult.success
        /\ Len(parseResult.tree.statements) = 1
        /\ LET node == parseResult.tree.statements[1]
           IN  /\ node.type = "switch"
               /\ Len(node.cases) = 2
               /\ node.cases[1].value = [type |-> "number", value |-> Num(1)]
               /\ node.cases[2].value = [type |-> "number", value |-> Num(2)]
               /\ Has(node, "default")
               /\ Len(node.default) >= 1

\* The C-form switch was tokenized and rejected: the first colon, at position
\* 19, is an invalid character.
C20_Witness ==
    /\ Parsed
    /\ source = CFormSwitchSource
    /\ \E i \in 1..Len(tokens) :
          /\ tokens[i].type = "INVALID"
          /\ tokens[i].value = << ":" >>
          /\ tokens[i].position = 19
    /\ parseResult = Failure(<< ParseError(Text("Invalid character '${invalidToken.value}'", << ":" >>), 19,
                                Text("Remove '${invalidToken.value}' or use valid characters", << ":" >>)) >>)

\* Where a line comment that starts at p ends: at the next line feed, or at
\* the end of the input.
LineCommentEnd(inp, p) ==
    LET feeds == {k \in p..(Len(inp) - 1) : At(inp, k) = "\n"}
    IN  IF feeds = {} THEN Len(inp)
        ELSE CHOOSE k \in feeds : \A j \in feeds : k <= j

\* Where a block comment that starts at p ends: after its first closing
\* star-slash, or at the end of the input when it is not terminated.
BlockCommentEnd(inp, p) ==
    LET closes == {k \in (p + 2)..(Len(inp) - 2) : At(inp, k) = "*" /\ At(inp, k + 1) = "/"}
    IN  IF closes = {} THEN Len(inp)
        ELSE (CHOOSE k \in closes : \A j \in closes : k <= j) + 2

\* C27: tokenize skips comments entirely: no token is made from a character
\* of a line comment or of a block comment, and a block comment that is not
\* terminated takes every remaining character, so that the only token after
\* its start is EOF.
C27_CommentsSkipped ==
    /\ [][(lexpc = "scan" /\ position < Len(input)
           /\ At(input, position) = "/" /\ At(input, position + 1) = "/") =>
            (tokens' = tokens /\ position' = LineCommentEnd(input, position))]_vars
    /\ [][(lexpc = "scan" /\ position < Len(input)
           /\ At(input, position) = "/" /\ At(input, position + 1) = "*") =>
            (tokens' = tokens /\ position' = BlockCommentEnd(input, position))]_vars
    /\ []((lexpc = "done" /\ input = << "/", "*", "a" >>) =>
            tokens = << Token("EOF", << >>, 3) >>)

\* The unterminated comment /*a was tokenized: its last character became an
\* identifier.
C27_Witness ==
    /\ lexpc = "done"
    /\ input = << "/", "*", "a" >>
    /\ tokens = << Token("IDENTIFIER", << "a" >>, 2), Token("EOF", << >>, 3) >>

\* Where the literal opened by the quote before p ends when a backslash and
\* the character after it are kept together: after the first quote that is
\* not escaped, or at the end of the input.
RECURSIVE LiteralEnd(_, _, _)
LiteralEnd(inp, p, quote) ==
    IF p >= Len(inp) THEN Len(inp)
    ELSE IF At(inp, p) = quote THEN p + 1
    ELSE IF At(inp, p) = "\\" /\ p + 1 < Len(inp) THEN LiteralEnd(inp, p + 2, quote)
    ELSE LiteralEnd(inp, p + 1, quote)

\* C28: in string literals and in character literals a backslash and the
\* character after it stay together as part of the literal, so an escaped
\* quote does not end the literal; each literal gives exactly one STRING or
\* CHAR token, and a literal that is not terminated runs to the end of the
\* input and gives one token without a closing quote.
C28_EscapesKeptInLiterals ==
    /\ [][(lexpc = "scan" /\ position < Len(input) /\ At(input, position) \in {"\"", "'"}) =>
            LET quote == At(input, position)
                end == LiteralEnd(input, position + 1, quote)
            IN  /\ position' = end
                /\ tokens' = Append(tokens, Token(IF quote = "'" THEN "CHAR" ELSE "STRING",
                                                  SubSeq(input, position + 1, end), position))]_vars
    /\ []((lexpc = "done" /\ input = << "'", "\\", "'", "'" >>) =>
            tokens = << Token("CHAR", << "'", "\\", "'", "'" >>, 0), Token("EOF", << >>, 4) >>)
    /\ []((lexpc = "done" /\ input = << "\"", "\\", "\"", "a", "\"" >>) =>
            tokens = << Token("STRING", << "\"", "\\", "\"", "a", "\"" >>, 0),
                        Token("EOF", << >>, 5) >>)

\* The character literal of an escaped quote was tokenized into two CHAR
\* tokens: the literal ended at the escaped quote.
C28_Witness ==
    /\ lexpc = "done"
    /\ input = << "'", "\\", "'", "'" >>
    /\ tokens = << Token("CHAR", << "'", "\\", "'" >>, 0), Token("CHAR", << "'" >>, 3),
                   Token("EOF", << >>, 4) >>

\* A production that was entered at cursor c and came back as r has consumed a
\* token, or it has thrown with an error pushed by it or below it.
AdvancedOrAborted(r, c) == IF r.ok THEN r.cur > c ELSE Len(r.errs) > 0

\* The productions the loops of the parser call once per iteration: program, block
\* and the switch bodies call statement, the argument loops call expression.
LoopBodyProductions == {"statement", "expression", "primary", "block"}

\* The parser at the assignmentOrExpression() call forLoop makes for its increment
\* clause when forLoop is entered at cursor c; << >> when forLoop throws before
\* that call or has no increment clause to parse.
IncrementCall(toks, c) ==
    LET s0 == [cur |-> c, errs |-> << >>]
        s1 == advance(toks, s0)
        s2 == advance(toks, s1)
        init == IF currentToken(toks, s2).type = "SEMICOLON"
                THEN Return(s2, << >>)
                ELSE Production("statement", toks, s2, << >>)
        condition == IF currentToken(toks, init).type = "SEMICOLON"
                     THEN Return(init, << >>)
                     ELSE Production("expression", toks, init, << >>)
        s3 == skipSemicolon(toks, condition)
    IN  IF ~IsKeyword(currentToken(toks, s0), K_for) THEN << >>
        ELSE IF currentToken(toks, s1).type # "LPAREN" THEN << >>
        ELSE IF ~init.ok THEN << >>
        ELSE IF ~condition.ok THEN << >>
        ELSE IF currentToken(toks, s3).type = "RPAREN" THEN << >>
        ELSE << s3 >>

\* parse() has returned a ParseResult: a tree on success, the recorded errors otherwise.
ParseReturned ==
    IF parseResult.success
    THEN DOMAIN parseResult = {"success", "tree"}
    ELSE DOMAIN parseResult = {"success", "errors"} /\ Len(parseResult.errors) > 0

\* Entered at any token before EOF, a production called from a loop of the parser
\* consumes a token or aborts with a recorded error.
LoopBodiesProgress ==
    \A c \in 0..(Len(tokens) - 2) : \A name \in LoopBodyProductions :
        AdvancedOrAborted(Production(name, tokens, [cur |-> c, errs |-> << >>], << >>), c)

\* The assignmentOrExpression() call of every for header in the text consumes a
\* token or aborts with a recorded error.
IncrementProgress ==
    \A c \in 0..(Len(tokens) - 1) :
        \A s \in {IncrementCall(tokens, c)[i] : i \in 1..Len(IncrementCall(tokens, c))} :
            AdvancedOrAborted(Production("assignmentOrExpression", tokens, s, << >>), s.cur)

\* C30: parse runs to completion on every token list ending in EOF: every
\* production the parser calls either advances the cursor by at least one token
\* or aborts with a recorded error, so no loop repeats without progress, and
\* parse returns a ParseResult.
C30_ParseTerminates ==
    (parsepc \in {"parsed", "evaluated"} /\ lexpc = "done") =>
        /\ ParseReturned
        /\ LoopBodiesProgress
        /\ IncrementProgress

\* for (a; b has been parsed: assignmentOrExpression(), called at EOF for the
\* increment, came back where it was entered with no error, and parse() returned
\* the failure forLoop then recorded.
C30_Witness ==
    /\ parsepc = "parsed"
    /\ source = UnfinishedForHeader
    /\ IncrementCall(tokens, 0) # << >>
    /\ LET s == IncrementCall(tokens, 0)[1]
           r == Production("assignmentOrExpression", tokens, s, << >>)
       IN  /\ currentToken(tokens, s).type = "EOF"
           /\ r.ok /\ r.cur = s.cur /\ r.errs = << >>
    /\ ~parseResult.success
    /\ parseResult.errors[1].message = Text("Expected ) after for clauses", << >>)

(***************************************************************************)
MaxStack == 16

\* A JavaScript Map: its entries in insertion order.
MapHas(map, key) == \E i \in 1..Len(map) : map[i].key = key
MapGet(map, key) == map[CHOOSE i \in 1..Len(map) : map[i].key = key].value
MapSet(map, key, value) ==
    IF MapHas(map, key)
    THEN [i \in 1..Len(map) |->
             IF map[i].key = key THEN [key |-> key, value |-> value] ELSE map[i]]
    ELSE Append(map, [key |-> key, value |-> value])

\* A key of a Map read from a field of an object: the text, or undefined
\* where the object has no such field.
Key(text) == [name |-> text]
KeyOf(obj, field) == IF Has(obj, field) THEN Key(obj[field]) ELSE Undefined

\* String(key)
PropertyKey(key) ==
    IF key = Undefined THEN << "u", "n", "d", "e", "f", "i", "n", "e", "d" >> ELSE key.name

\* Object.fromEntries(map)
RECURSIVE FromEntries(_)
FromEntries(map) ==
    IF map = << >> THEN << >>
    ELSE MapSet(FromEntries(SubSeq(map, 1, Len(map) - 1)),
                PropertyKey(map[Len(map)].key), map[Len(map)].value)

\* An array of nodes, as against a node: what Array.isArray tells apart.
Array(items) == [array |-> items]
IsArray(node) == "array" \in DOMAIN node
IsNode(node) == "type" \in DOMAIN node

isTruthy(value) == value # Num(0) /\ value # Null /\ value # Undefined

Bool(b) == IF b THEN Num(1) ELSE Num(0)

\* left === right
StrictEquals(left, right) == left.t # "nan" /\ left = right

\* left < right; a comparison with a number beyond NumCap is not decided by the model
\* and counts as false.
Less(x, y) ==
    LET a == ToNumber(x)
        b == ToNumber(y)
    IN  IF a.t \in {"nan", "out_of_range"} \/ b.t \in {"nan", "out_of_range"} THEN FALSE
        ELSE IF a.t = "inf" THEN a.s < 0 /\ ~(b.t = "inf" /\ b.s < 0)
        ELSE IF b.t = "inf" THEN b.s > 0
        ELSE a.n * b.d < b.n * a.d

LessOrEqual(x, y) ==
    LET a == ToNumber(x)
        b == ToNumber(y)
    IN  IF a.t \in {"nan", "out_of_range"} \/ b.t \in {"nan", "out_of_range"} THEN FALSE
        ELSE Less(a, b) \/ a = b

\* The switch of evaluateBinaryOp.
BinaryOpValue(operator, left, right) ==
    CASE operator = "+" -> Add(left, right)
      [] operator = "-" -> Sub(left, right)
      [] operator = "*" -> Mul(left, right)
      [] operator = "/" -> Floor(Div(left, right))
      [] operator = "%" -> Mod(left, right)
      [] operator = "==" -> Bool(StrictEquals(left, right))
      [] operator = "!=" -> Bool(~StrictEquals(left, right))
      [] operator = "<" -> Bool(Less(left, right))
      [] operator = ">" -> Bool(Less(right, left))
      [] operator = "<=" -> Bool(LessOrEqual(left, right))
      [] operator = ">=" -> Bool(LessOrEqual(right, left))
      [] operator = "&&" -> Bool(~Falsy(left) /\ ~Falsy(right))
      [] operator = "||" -> Bool(~Falsy(left) \/ ~Falsy(right))
      [] operator = "!" -> Bool(Falsy(right))
      [] OTHER -> Num(0)

\* The digits of n in exactly k places.
RECURSIVE Padded(_, _)
Padded(n, k) == IF k = 0 THEN << >> ELSE Padded(n \div 10, k - 1) \o << DigitChars[(n % 10) + 1] >>

\* String(value).  A number whose decimal expansion needs more than four
\* places is outside what the model prints.
String(value) ==
    CASE value.t = "null" -> << "n", "u", "l", "l" >>
      [] value.t = "undefined" -> << "u", "n", "d", "e", "f", "i", "n", "e", "d" >>
      [] value.t = "nan" -> << "N", "a", "N" >>
      [] value.t = "inf" ->
            (IF value.s < 0 THEN << "-" >> ELSE << >>) \o << "I", "n", "f", "i", "n", "i", "t", "y" >>
      [] value.t = "out_of_range" -> << "out_of_range" >>
      [] value.t = "num" ->
            LET places == {k \in 0..4 : Pow10(k) % value.d = 0}
                k == CHOOSE i \in places : \A j \in places : i <= j
                scaled == (Abs(value.n) * Pow10(k)) \div value.d
            IN  IF places = {} THEN << "out_of_range" >>
                ELSE (IF value.n < 0 THEN << "-" >> ELSE << >>)
                     \o NatToString(scaled \div Pow10(k))
                     \o (IF k = 0 THEN << >> ELSE << "." >> \o Padded(scaled % Pow10(k), k))

\* evaluatedArgs.map(String).join(' ')
RECURSIVE Join(_)
Join(values) ==
    IF values = << >> THEN << >>
    ELSE IF Len(values) = 1 THEN String(values[1])
    ELSE String(values[1]) \o << " " >> \o Join(Tail(values))

\* The control of the interpreter.
Eval(node) == [m |-> "eval", node |-> node]
Ret(value) == [m |-> "ret", value |-> value]
Raise(message) == [m |-> "throw", message |-> message]
Done == [m |-> "done"]

Top == kont[Len(kont)]
Pop == SubSeq(kont, 1, Len(kont) - 1)

\* What a step of the interpreter leaves alone outside the Interpreter object.
Outside ==
    /\ UNCHANGED << source, tree, execResult >>
    /\ UNCHANGED lexVars
    /\ UNCHANGED parseVars

\* interpretNode was called on a node of the given type.
Interpreting(type) ==
    /\ ctl.m = "eval"
    /\ Len(kont) < MaxStack
    /\ IsNode(ctl.node)
    /\ ctl.node.type = type

\* A value was returned to the activation of the given kind.
Returned(kind) ==
    /\ ctl.m = "ret"
    /\ kont # << >>
    /\ Top.k = kind

\* The engine's limit on nested calls.
StackOverflow ==
    /\ ctl.m = "eval"
    /\ Len(kont) >= MaxStack
    /\ ctl' = Raise(Text("Maximum call stack size exceeded", << >>))
    /\ UNCHANGED << kont, variables, functions, output, returnValue, breakFlag, continueFlag >>
    /\ Outside

\* interpretNode on undefined: reading node.type throws a TypeError.
InterpretMissingNode ==
    /\ ctl.m = "eval"
    /\ Len(kont) < MaxStack
    /\ ~IsArray(ctl.node)
    /\ ~IsNode(ctl.node)
    /\ ctl' = Raise(Text("Cannot read properties of undefined (reading 'type')", << >>))
    /\ UNCHANGED << kont, variables, functions, output, returnValue, breakFlag, continueFlag >>
    /\ Outside

\* The loop over an array of statements from its i-th item, last being the
\* value of the item before: the control and the activations it leaves.
ArrayStep(items, i, last, k) ==
    IF i <= Len(items) /\ returnValue = Null /\ ~breakFlag /\ ~continueFlag
    THEN [c |-> Eval(items[i]), k |-> Append(k, [k |-> "array", items |-> items, i |-> i])]
    ELSE [c |-> Ret(last), k |-> k]

InterpretArray ==
    /\ ctl.m = "eval"
    /\ Len(kont) < MaxStack
    /\ IsArray(ctl.node)
    /\ LET n == ArrayStep(ctl.node.array, 1, Undefined, kont)
       IN  ctl' = n.c /\ kont' = n.k
    /\ UNCHANGED << variables, functions, output, returnValue, breakFlag, continueFlag >>
    /\ Outside

ArrayNext ==
    /\ Returned("array")
    /\ LET n == ArrayStep(Top.items, Top.i + 1, ctl.value, Pop)
       IN  ctl' = n.c /\ kont' = n.k
    /\ UNCHANGED << variables, functions, output, returnValue, breakFlag, continueFlag >>
    /\ Outside

InterpretProgram ==
    /\ Interpreting("program")
    /\ ctl' = Eval(Array(IF Has(ctl.node, "statements") THEN ctl.node.statements ELSE << >>))
    /\ UNCHANGED << kont, variables, functions, output, returnValue, breakFlag, continueFlag >>
    /\ Outside

\* func.params.forEach((param, i) => variables.set(param.name, evaluatedArgs[i] || 0))
RECURSIVE BindParams(_, _, _, _)
BindParams(scope, params, evaluatedArgs, i) ==
    IF i > Len(params) THEN scope
    ELSE BindParams(MapSet(scope, KeyOf(params[i], "name"),
                           IF i <= Len(evaluatedArgs) /\ ~Falsy(evaluatedArgs[i])
                           THEN evaluatedArgs[i] ELSE Num(0)),
                    params, evaluatedArgs, i + 1)

InterpretFunctionDeclaration ==
    /\ Interpreting("function_declaration")
    /\ LET node == ctl.node
           func == [params |-> IF Has(node, "parameters") THEN node.parameters ELSE << >>,
                    body |-> Get(node, "body"),
                    returnType |-> IF Has(node, "returnType") THEN node.returnType
                                   ELSE << "i", "n", "t" >>]
       IN  /\ functions' = MapSet(functions, KeyOf(node, "identifier"), func)
           /\ IF KeyOf(node, "identifier") = Key(<< "m", "a", "i", "n" >>)
              THEN /\ variables' = BindParams(variables, func.params, << >>, 1)
                   /\ returnValue' = Null
                   /\ ctl' = Eval(func.body)
                   /\ kont' = kont \o << [k |-> "main"],
                                         [k |-> "call", previousVars |-> variables,
                                          previousReturn |-> returnValue] >>
              ELSE /\ ctl' = Ret(Null)
                   /\ UNCHANGED << kont, variables, returnValue >>
    /\ UNCHANGED << output, breakFlag, continueFlag >>
    /\ Outside

\* this.returnValue = result, after callFunction('main', []) returned.
MainReturned ==
    /\ Returned("main")
    /\ returnValue' = ctl.value
    /\ ctl' = Ret(Null)
    /\ kont' = Pop
    /\ UNCHANGED << variables, functions, output, breakFlag, continueFlag >>
    /\ Outside

\* The end of callFunction: the result, and the scope of the caller restored.
CallBodyDone ==
    /\ Returned("call")
    /\ ctl' = Ret(IF returnValue # Null THEN returnValue ELSE Num(0))
    /\ returnValue' = Top.previousReturn
    /\ variables' = Top.previousVars
    /\ kont' = Pop
    /\ UNCHANGED << functions, output, breakFlag, continueFlag >>
    /\ Outside

InterpretDeclaration ==
    /\ Interpreting("declaration")
    /\ IF Has(ctl.node, "init")
       THEN /\ ctl' = Eval(ctl.node.init)
            /\ kont' = Append(kont, [k |-> "declaration", node |-> ctl.node])
            /\ UNCHANGED variables
       ELSE /\ variables' = MapSet(variables, KeyOf(ctl.node, "identifier"), Num(0))
            /\ ctl' = Ret(Null)
            /\ UNCHANGED kont
    /\ UNCHANGED << functions, output, returnValue, breakFlag, continueFlag >>
    /\ Outside

DeclarationInitialized ==
    /\ Returned("declaration")
    /\ variables' = MapSet(variables, KeyOf(Top.node, "identifier"), ctl.value)
    /\ ctl' = Ret(Null)
    /\ kont' = Pop
    /\ UNCHANGED << functions, output, returnValue, breakFlag, continueFlag >>
    /\ Outside

InterpretAssignment ==
    /\ Interpreting("assignment")
    /\ ctl' = Eval(Get(ctl.node, "right"))
    /\ kont' = Append(kont, [k |-> "assignment", node |-> ctl.node])
    /\ UNCHANGED << variables, functions, output, returnValue, breakFlag, continueFlag >>
    /\ Outside

AssignmentEvaluated ==
    /\ Returned("assignment")
    /\ variables' = MapSet(variables, KeyOf(Top.node, "identifier"), ctl.value)
    /\ ctl' = Ret(ctl.value)
    /\ kont' = Pop
    /\ UNCHANGED << functions, output, returnValue, breakFlag, continueFlag >>
    /\ Outside

InterpretIf ==
    /\ Interpreting("if_statement")
    /\ ctl' = Eval(Get(ctl.node, "condition"))
    /\ kont' = Append(kont, [k |-> "if", node |-> ctl.node])
    /\ UNCHANGED << variables, functions, output, returnValue, breakFlag, continueFlag >>
    /\ Outside

IfConditionEvaluated ==
    /\ Returned("if")
    /\ ctl' = IF isTruthy(ctl.value) THEN Eval(Get(Top.node, "body"))
              ELSE IF Has(Top.node, "elseBranch") THEN Eval(Top.node.elseBranch)
              ELSE Ret(Null)
    /\ kont' = Pop
    /\ UNCHANGED << variables, functions, output, returnValue, breakFlag, continueFlag >>
    /\ Outside

\* The end of a loop: this.breakFlag = false; return null.
LoopExit ==
    /\ breakFlag' = FALSE
    /\ ctl' = Ret(Null)
    /\ kont' = Pop
    /\ UNCHANGED << variables, functions, output, returnValue, continueFlag >>

\* The body of a loop returned and the loop goes on: the control and the waiting
\* activation are given, continueFlag is cleared.
LoopOn(c, frame) ==
    /\ continueFlag' = FALSE
    /\ ctl' = c
    /\ kont' = Append(Pop, frame)
    /\ UNCHANGED << variables, functions, output, returnValue, breakFlag >>

InterpretWhile ==
    /\ Interpreting("while_loop")
    /\ ctl' = Eval(Get(ctl.node, "condition"))
    /\ kont' = Append(kont, [k |-> "while_cond", node |-> ctl.node])
    /\ UNCHANGED << variables, functions, output, returnValue, breakFlag, continueFlag >>
    /\ Outside

WhileConditionEvaluated ==
    /\ Returned("while_cond")
    /\ IF isTruthy(ctl.value)
       THEN /\ ctl' = Eval(Get(Top.node, "body"))
            /\ kont' = Append(Pop, [k |-> "while_body", node |-> Top.node])
            /\ UNCHANGED << variables, functions, output, returnValue, breakFlag, continueFlag >>
       ELSE LoopExit
    /\ Outside

WhileBodyDone ==
    /\ Returned("while_body")
    /\ IF returnValue # Null \/ breakFlag
       THEN LoopExit
       ELSE LoopOn(Eval(Get(Top.node, "condition")), [k |-> "while_cond", node |-> Top.node])
    /\ Outside

InterpretDoWhile ==
    /\ Interpreting("do_while_loop")
    /\ ctl' = Eval(Get(ctl.node, "body"))
    /\ kont' = Append(kont, [k |-> "do_while_body", node |-> ctl.node])
    /\ UNCHANGED << variables, functions, output, returnValue, breakFlag, continueFlag >>
    /\ Outside

DoWhileBodyDone ==
    /\ Returned("do_while_body")
    /\ IF returnValue # Null \/ breakFlag
       THEN LoopExit
       ELSE LoopOn(Eval(Get(Top.node, "condition")), [k |-> "do_while_cond", node |-> Top.node])
    /\ Outside

DoWhileConditionEvaluated ==
    /\ Returned("do_while_cond")
    /\ IF isTruthy(ctl.value)
       THEN /\ ctl' = Eval(Get(Top.node, "body"))
            /\ kont' = Append(Pop, [k |-> "do_while_body", node |-> Top.node])
            /\ UNCHANGED << variables, functions, output, returnValue, breakFlag, continueFlag >>
       ELSE LoopExit
    /\ Outside

\* The test of a for loop with the activations k below it: the condition when
\* there is one, the body at once when there is none.
ForTest(node, k) ==
    IF Has(node, "condition")
    THEN [c |-> Eval(node.condition), k |-> Append(k, [k |-> "for_cond", node |-> node])]
    ELSE [c |-> Eval(Get(node, "body")), k |-> Append(k, [k |-> "for_body", node |-> node])]

InterpretFor ==
    /\ Interpreting("for_loop")
    /\ IF Has(ctl.node, "init")
       THEN /\ ctl' = Eval(ctl.node.init)
            /\ kont' = Append(kont, [k |-> "for_init", node |-> ctl.node])
       ELSE /\ ctl' = ForTest(ctl.node, kont).c
            /\ kont' = ForTest(ctl.node, kont).k
    /\ UNCHANGED << variables, functions, output, returnValue, breakFlag, continueFlag >>
    /\ Outside

ForInitDone ==
    /\ Returned("for_init")
    /\ ctl' = ForTest(Top.node, Pop).c
    /\ kont' = ForTest(Top.node, Pop).k
    /\ UNCHANGED << variables, functions, output, returnValue, breakFlag, continueFlag >>
    /\ Outside

ForConditionEvaluated ==
    /\ Returned("for_cond")
    /\ IF isTruthy(ctl.value)
       THEN /\ ctl' = Eval(Get(Top.node, "body"))
            /\ kont' = Append(Pop, [k |-> "for_body", node |-> Top.node])
            /\ UNCHANGED << variables, functions, output, returnValue, breakFlag, continueFlag >>
       ELSE LoopExit
    /\ Outside

ForBodyDone ==
    /\ Returned("for_body")
    /\ IF returnValue # Null \/ breakFlag
       THEN LoopExit
       ELSE IF Has(Top.node, "increment")
            THEN LoopOn(Eval(Top.node.increment), [k |-> "for_increment", node |-> Top.node])
            ELSE /\ continueFlag' = FALSE
                 /\ ctl' = ForTest(Top.node, Pop).c
                 /\ kont' = ForTest(Top.node, Pop).k
                 /\ UNCHANGED << variables, functions, output, returnValue, breakFlag >>
    /\ Outside

ForIncrementDone ==
    /\ Returned("for_increment")
    /\ ctl' = ForTest(Top.node, Pop).c
    /\ kont' = ForTest(Top.node, Pop).k
    /\ UNCHANGED << variables, functions, output, returnValue, breakFlag, continueFlag >>
    /\ Outside

\* A switch whose default list runs after the last case whenever it is there.
SwitchStepIntoDefault(node, i, testValue, matched, executeDefault, k) ==
    LET cases == IF Has(node, "cases") THEN node.cases ELSE << >>
    IN  IF i <= Len(cases)
        THEN [c |-> Eval(Get(cases[i], "value")),
              k |-> Append(k, [k |-> "switch_value", node |-> node, i |-> i,
                               testValue |-> testValue, matched |-> matched,
                               executeDefault |-> executeDefault])]
        ELSE IF Has(node, "default")
             THEN [c |-> Eval(node.default), k |-> Append(k, [k |-> "switch_default"])]
        ELSE [c |-> Ret(Null), k |-> k]

\* The loop over the cases of a switch from the i-th case, then the default.
SwitchStep(node, i, testValue, matched, executeDefault, k) ==
    LET cases == IF Has(node, "cases") THEN node.cases ELSE << >>
    IN  IF i <= Len(cases)
        THEN [c |-> Eval(Get(cases[i], "value")),
              k |-> Append(k, [k |-> "switch_value", node |-> node, i |-> i,
                               testValue |-> testValue, matched |-> matched,
                               executeDefault |-> executeDefault])]
        ELSE IF executeDefault /\ Has(node, "default")
             THEN [c |-> Eval(node.default), k |-> Append(k, [k |-> "switch_default"])]
        ELSE [c |-> Ret(Null), k |-> k]

InterpretSwitch ==
    /\ Interpreting("switch_statement")
    /\ ctl' = Eval(Get(ctl.node, "test"))
    /\ kont' = Append(kont, [k |-> "switch_test", node |-> ctl.node])
    /\ UNCHANGED << variables, functions, output, returnValue, breakFlag, continueFlag >>
    /\ Outside

SwitchTestEvaluated ==
    /\ Returned("switch_test")
    /\ LET n == SwitchStep(Top.node, 1, ctl.value, FALSE, TRUE, Pop)
       IN  ctl' = n.c /\ kont' = n.k
    /\ UNCHANGED << variables, functions, output, returnValue, breakFlag, continueFlag >>
    /\ Outside

SwitchCaseValueEvaluated ==
    /\ Returned("switch_value")
    /\ IF StrictEquals(Top.testValue, ctl.value) \/ Top.matched
       THEN /\ ctl' = Eval(Get(Top.node.cases[Top.i], "body"))
            /\ kont' = Append(Pop, [k |-> "switch_body", node |-> Top.node, i |-> Top.i,
                                    testValue |-> Top.testValue])
       ELSE LET n == SwitchStep(Top.node, Top.i + 1, Top.testValue, FALSE,
                                Top.executeDefault, Pop)
            IN  ctl' = n.c /\ kont' = n.k
    /\ UNCHANGED << variables, functions, output, returnValue, breakFlag, continueFlag >>
    /\ Outside

SwitchCaseBodyDone ==
    /\ Returned("switch_body")
    /\ IF breakFlag
       THEN /\ breakFlag' = FALSE
            /\ ctl' = Ret(Null)
            /\ kont' = Pop
       ELSE LET n == SwitchStep(Top.node, Top.i + 1, Top.testValue, TRUE, FALSE, Pop)
            IN  ctl' = n.c /\ kont' = n.k /\ UNCHANGED breakFlag
    /\ UNCHANGED << variables, functions, output, returnValue, continueFlag >>
    /\ Outside

SwitchDefaultDone ==
    /\ Returned("switch_default")
    /\ breakFlag' = FALSE
    /\ ctl' = Ret(Null)
    /\ kont' = Pop
    /\ UNCHANGED << variables, functions, output, returnValue, continueFlag >>
    /\ Outside

InterpretReturn ==
    /\ Interpreting("return_statement")
    /\ LET value == Get(ctl.node, "value")
       IN  IF IsNode(value) \/ IsArray(value)
           THEN /\ ctl' = Eval(value)
                /\ kont' = Append(kont, [k |-> "return"])
                /\ UNCHANGED returnValue
           ELSE /\ returnValue' = IF value.t \in {"num", "inf"} /\ ~Falsy(value) THEN value ELSE Num(0)
                /\ ctl' = Ret(returnValue')
                /\ UNCHANGED kont
    /\ UNCHANGED << variables, functions, output, breakFlag, continueFlag >>
    /\ Outside

ReturnEvaluated ==
    /\ Returned("return")
    /\ returnValue' = ctl.value
    /\ ctl' = Ret(ctl.value)
    /\ kont' = Pop
    /\ UNCHANGED << variables, functions, output, breakFlag, continueFlag >>
    /\ Outside

InterpretBreak ==
    /\ Interpreting("break_statement")
    /\ breakFlag' = TRUE
    /\ ctl' = Ret(Null)
    /\ UNCHANGED << kont, variables, functions, output, returnValue, continueFlag >>
    /\ Outside

InterpretContinue ==
    /\ Interpreting("continue_statement")
    /\ continueFlag' = TRUE
    /\ ctl' = Ret(Null)
    /\ UNCHANGED << kont, variables, functions, output, returnValue, breakFlag >>
    /\ Outside

\* A printf that returns the number of characters it printed, as C's does.
PrintfStepReturningCount(args, i, evaluatedArgs, k) ==
    IF i <= Len(args)
    THEN [c |-> Eval(args[i]),
          k |-> Append(k, [k |-> "printf", args |-> args, i |-> i, evaluatedArgs |-> evaluatedArgs]),
          out |-> output]
    ELSE [c |-> Ret(Num(Len(Join(evaluatedArgs)))), k |-> k,
          out |-> Append(output, Join(evaluatedArgs))]

\* callFunction('printf', args) from its i-th argument: the next argument to
\* evaluate, or the line pushed to the output and the 0 returned.
PrintfStep(args, i, evaluatedArgs, k) ==
    IF i <= Len(args)
    THEN [c |-> Eval(args[i]),
          k |-> Append(k, [k |-> "printf", args |-> args, i |-> i, evaluatedArgs |-> evaluatedArgs]),
          out |-> output]
    ELSE [c |-> Ret(Num(0)), k |-> k, out |-> Append(output, Join(evaluatedArgs))]

\* callFunction taking its copy of the variables after the parameters are bound.
CallStepKeepingParameters(func, args, i, evaluatedArgs, previousVars, k) ==
    IF i <= Len(args)
    THEN [c |-> Eval(args[i]),
          k |-> Append(k, [k |-> "call_args", func |-> func, args |-> args, i |-> i,
                           evaluatedArgs |-> evaluatedArgs, previousVars |-> previousVars]),
          scope |-> variables,
          ret |-> returnValue]
    ELSE [c |-> Eval(func.body),
          k |-> Append(k, [k |-> "call",
                           previousVars |-> BindParams(variables, func.params, evaluatedArgs, 1),
                           previousReturn |-> returnValue]),
          scope |-> BindParams(variables, func.params, evaluatedArgs, 1),
          ret |-> Null]

\* callFunction(name, args) for a defined function from its i-th argument: the
\* next argument to evaluate, or the parameters bound and the body entered.
CallStep(func, args, i, evaluatedArgs, previousVars, k) ==
    IF i <= Len(args)
    THEN [c |-> Eval(args[i]),
          k |-> Append(k, [k |-> "call_args", func |-> func, args |-> args, i |-> i,
                           evaluatedArgs |-> evaluatedArgs, previousVars |-> previousVars]),
          scope |-> variables,
          ret |-> returnValue]
    ELSE [c |-> Eval(func.body),
          k |-> Append(k, [k |-> "call", previousVars |-> previousVars,
                           previousReturn |-> returnValue]),
          scope |-> BindParams(variables, func.params, evaluatedArgs, 1),
          ret |-> Null]

printf == << "p", "r", "i", "n", "t", "f" >>

InterpretFunctionCall ==
    /\ Interpreting("function_call")
    /\ LET name == KeyOf(ctl.node, "identifier")
           args == IF Has(ctl.node, "arguments") THEN ctl.node.arguments ELSE << >>
       IN  IF name = Key(printf)
           THEN LET n == PrintfStep(args, 1, << >>, kont)
                IN  /\ ctl' = n.c /\ kont' = n.k /\ output' = n.out
                    /\ UNCHANGED << variables, returnValue >>
           ELSE IF ~MapHas(functions, name)
           THEN /\ ctl' = Raise(Text("Function ${name} not defined", PropertyKey(name)))
                /\ UNCHANGED << kont, output, variables, returnValue >>
           ELSE LET n == CallStep(MapGet(functions, name), args, 1, << >>, variables, kont)
                IN  /\ ctl' = n.c /\ kont' = n.k
                    /\ variables' = n.scope /\ returnValue' = n.ret
                    /\ UNCHANGED output
    /\ UNCHANGED << functions, breakFlag, continueFlag >>
    /\ Outside

PrintfArgumentEvaluated ==
    /\ Returned("printf")
    /\ LET n == PrintfStep(Top.args, Top.i + 1, Append(Top.evaluatedArgs, ctl.value), Pop)
       IN  ctl' = n.c /\ kont' = n.k /\ output' = n.out
    /\ UNCHANGED << variables, functions, returnValue, breakFlag, continueFlag >>
    /\ Outside

CallArgumentEvaluated ==
    /\ Returned("call_args")
    /\ LET n == CallStep(Top.func, Top.args, Top.i + 1, Append(Top.evaluatedArgs, ctl.value),
                         Top.previousVars, Pop)
       IN  /\ ctl' = n.c /\ kont' = n.k
           /\ variables' = n.scope /\ returnValue' = n.ret
    /\ UNCHANGED << functions, output, breakFlag, continueFlag >>
    /\ Outside

InterpretBinaryOp ==
    /\ Interpreting("binary_op")
    /\ ctl' = Eval(Get(ctl.node, "left"))
    /\ kont' = Append(kont, [k |-> "binary_left", node |-> ctl.node])
    /\ UNCHANGED << variables, functions, output, returnValue, breakFlag, continueFlag >>
    /\ Outside

BinaryLeftEvaluated ==
    /\ Returned("binary_left")
    /\ ctl' = Eval(Get(Top.node, "right"))
    /\ kont' = Append(Pop, [k |-> "binary_right", node |-> Top.node, left |-> ctl.value])
    /\ UNCHANGED << variables, functions, output, returnValue, breakFlag, continueFlag >>
    /\ Outside

BinaryRightEvaluated ==
    /\ Returned("binary_right")
    /\ ctl' = Ret(BinaryOpValue(Get(Top.node, "operator"), Top.left, ctl.value))
    /\ kont' = Pop
    /\ UNCHANGED << variables, functions, output, returnValue, breakFlag, continueFlag >>
    /\ Outside

InterpretUnaryOp ==
    /\ Interpreting("unary_op")
    /\ ctl' = Eval(Get(ctl.node, "right"))
    /\ kont' = Append(kont, [k |-> "unary", node |-> ctl.node])
    /\ UNCHANGED << variables, functions, output, returnValue, breakFlag, continueFlag >>
    /\ Outside

UnaryOperandEvaluated ==
    /\ Returned("unary")
    /\ LET operator == Get(Top.node, "operator")
           operand == ctl.value
       IN  ctl' = Ret(IF operator = "-" THEN Neg(ToNumber(operand))
                      ELSE IF operator = "!" THEN Bool(Falsy(operand))
                      ELSE operand)
    /\ kont' = Pop
    /\ UNCHANGED << variables, functions, output, returnValue, breakFlag, continueFlag >>
    /\ Outside

InterpretIdentifier ==
    /\ Interpreting("identifier")
    /\ LET name == KeyOf(ctl.node, "identifier")
       IN  ctl' = Ret(IF MapHas(variables, name) THEN MapGet(variables, name) ELSE Num(0))
    /\ UNCHANGED << kont, variables, functions, output, returnValue, breakFlag, continueFlag >>
    /\ Outside

InterpretNumber ==
    /\ Interpreting("number")
    /\ ctl' = Ret(Get(ctl.node, "value"))
    /\ UNCHANGED << kont, variables, functions, output, returnValue, breakFlag, continueFlag >>
    /\ Outside

InterpretPreprocessor ==
    /\ Interpreting("preprocessor")
    /\ ctl' = Ret(Null)
    /\ UNCHANGED << kont, variables, functions, output, returnValue, breakFlag, continueFlag >>
    /\ Outside

\* The node types interpretNode has a case for.
InterpretedTypes ==
    { "program", "function_declaration", "declaration", "assignment", "if_statement",
      "while_loop", "do_while_loop", "for_loop", "switch_statement", "return_statement",
      "break_statement", "continue_statement", "function_call", "binary_op", "unary_op",
      "identifier", "number", "preprocessor" }

\* default: return null
InterpretOther ==
    /\ ctl.m = "eval"
    /\ Len(kont) < MaxStack
    /\ IsNode(ctl.node)
    /\ ctl.node.type \notin InterpretedTypes
    /\ ctl' = Ret(Null)
    /\ UNCHANGED << kont, variables, functions, output, returnValue, breakFlag, continueFlag >>
    /\ Outside

\* The result execute returns when interpretNode returned.
Completed(out, ret, scope) ==
    [output |-> out, returnValue |-> ret, variables |-> scope]

\* A variant of the result of the catch block that drops what was gathered.
CaughtEmpty(out, scope, message) ==
    [output |-> << >>, returnValue |-> Null, variables |-> << >>, error |-> message]

\* The result execute returns from its catch block.
Caught(out, scope, message) ==
    [output |-> out, returnValue |-> Null, variables |-> scope, error |-> message]

ExecuteReturn ==
    /\ ctl.m = "ret"
    /\ kont = << >>
    /\ execResult' = Completed(output, returnValue, FromEntries(variables))
    /\ ctl' = Done
    /\ UNCHANGED << kont, variables, functions, output, returnValue, breakFlag, continueFlag >>
    /\ UNCHANGED << source, tree >>
    /\ UNCHANGED lexVars
    /\ UNCHANGED parseVars

ExecuteCatch ==
    /\ ctl.m = "throw"
    /\ execResult' = Caught(output, FromEntries(variables), ctl.message)
    /\ ctl' = Done
    /\ kont' = << >>
    /\ UNCHANGED << variables, functions, output, returnValue, breakFlag, continueFlag >>
    /\ UNCHANGED << source, tree >>
    /\ UNCHANGED lexVars
    /\ UNCHANGED parseVars

\* handleParse after executeProgram(parseResult.tree) has returned: the error
\* of the execution, or its return value (0 when there is none) with the
\* program output.
HandleParseExecuted ==
    /\ ctl = Done
    /\ Trim(source) # << >>
    /\ evaluationData = Null
    /\ evaluationData' =
          IF Has(execResult, "error")
          THEN [result |-> Null, error |-> execResult.error, programOutput |-> execResult]
          ELSE [result |-> IF Falsy(execResult.returnValue) THEN Num(0)
                           ELSE execResult.returnValue,
                programOutput |-> execResult]
    /\ UNCHANGED << parsepc, parseResult, evalResult >>
    /\ UNCHANGED source
    /\ UNCHANGED lexVars
    /\ UNCHANGED execVars

(***************************************************************************)
(* ExecSpec: executeProgram(tree), one step per call of or return to        *)
(* interpretNode.  The trees are those parseExpression returns for the     *)
(* program texts below, and trees in the node names interpretNode reads.   *)
(***************************************************************************)
MaxForBound == 2

\* int main() { int x = 5; int y = 3; printf(x + y); return x * y; }
MainProgramSource ==
    <<"i","n","t"," ","m","a","i","n","(",")"," ","{"," ","i","n","t"," ","x"," ","="," ","5",";"," ","i","n","t"," ","y"," ","="," ","3",";"," ","p","r","i","n","t","f","(","x"," ","+"," ","y",")",";"," ","r","e","t","u","r","n"," ","x"," ","*"," ","y",";"," ","}">>

\* while (1) {}
WhileOneSource ==
    <<"w","h","i","l","e"," ","(","1",")"," ","{","}">>

\* int x = 1; printf(7); f();
UndefinedCallSource ==
    <<"i","n","t"," ","x"," ","="," ","1",";"," ","p","r","i","n","t","f","(","7",")",";"," ","f","(",")",";">>

\* x = 5;
AssignmentSource ==
    <<"x"," ","="," ","5",";">>

\* #include <stdio.h>\nint x = 2 + 3 * 4; int y = -x; if (x > 1) printf(x, y);
DeclarationsSource ==
    <<"#","i","n","c","l","u","d","e"," ","<","s","t","d","i","o",".","h",">","\n","i","n","t"," ","x"," ","="," ","2"," ","+"," ","3"," ","*"," ","4",";"," ","i","n","t"," ","y"," ","="," ","-","x",";"," ","i","f"," ","(","x"," ",">"," ","1",")"," ","p","r","i","n","t","f","(","x",","," ","y",")",";">>

\* for (int i = 0; i < N; i++) {}
ForLoopSource(N) ==
    <<"f","o","r"," ","(","i","n","t"," ","i"," ","="," ","0",";"," ","i"," ","<"," ">> \o NatToString(N) \o <<";"," ","i","+","+",")"," ","{","}">>

\* int x = 5;
DeclareFiveSource ==
    <<"i","n","t"," ","x"," ","="," ","5",";">>

\* int x = -5;
DeclareMinusFiveSource ==
    <<"i","n","t"," ","x"," ","="," ","-","5",";">>

\* int x;
DeclareBareSource ==
    <<"i","n","t"," ","x",";">>

\* float x = 1.5;
DeclareFractionSource ==
    <<"f","l","o","a","t"," ","x"," ","="," ","1",".","5",";">>

\* int p = 7 / 2; int q = (0 - 7) / 2;
DivisionSource ==
    <<"i","n","t"," ","p"," ","="," ","7"," ","/"," ","2",";"," ","i","n","t"," ","q"," ","="," ","(","0"," ","-"," ","7",")"," ","/"," ","2",";">>

\* 2 + 3 * 4
ArithmeticSource ==
    <<"2"," ","+"," ","3"," ","*"," ","4">>

ExecSources ==
    << MainProgramSource, WhileOneSource, UndefinedCallSource, AssignmentSource,
       DeclarationsSource, DeclareFiveSource, DeclareMinusFiveSource, DeclareBareSource,
       DeclareFractionSource, DivisionSource, ArithmeticSource >>
    \o [N \in 1..(MaxForBound + 1) |-> ForLoopSource(N - 1)]

\* parseExpression(text).tree
ParsedTree(text) == parseExpression(text).tree

MainProgramTree == ParsedTree(MainProgramSource)
WhileOneTree == ParsedTree(WhileOneSource)
UndefinedCallTree == ParsedTree(UndefinedCallSource)
ForLoopTree(N) == ParsedTree(ForLoopSource(N))

\* Nodes in the field names interpretNode reads.
Variable(name) == [type |-> "identifier", identifier |-> name]
Declare(name, init) == [type |-> "declaration", identifier |-> name, init |-> init]
Assign(name, right) == [type |-> "assignment", identifier |-> name, right |-> right]
Call(name, arguments) == [type |-> "function_call", identifier |-> name, arguments |-> arguments]
ReturnOf(value) == [type |-> "return_statement", value |-> value]
Unary(operator, right) == [type |-> "unary_op", operator |-> operator, right |-> right]
FunctionOf(name, parameters, body) ==
    [type |-> "function_declaration", identifier |-> name, parameters |-> parameters,
     body |-> Array(body)]
ProgramOf(statements) == [type |-> "program", statements |-> statements]
Lit(n) == NumberNode(Num(n))
Plus(left, right) == BinaryOp("+", left, right)

\* main declares x = 5 and y = 3, prints x + y and returns x * y.
MainDeclaration ==
    ProgramOf(<< FunctionOf(<< "m", "a", "i", "n" >>, << >>,
                   << Declare(<< "x" >>, Lit(5)),
                      Declare(<< "y" >>, Lit(3)),
                      Call(printf, << Plus(Variable(<< "x" >>), Variable(<< "y" >>)) >>),
                      ReturnOf(BinaryOp("*", Variable(<< "x" >>), Variable(<< "y" >>))) >>) >>)

\* f(n) calls f(n + 1): the recursion never ends.
Recursion ==
    ProgramOf(<< Declare(<< "x" >>, Lit(1)),
                 FunctionOf(<< "f" >>, << [name |-> << "n" >>] >>,
                   << Call(printf, << Variable(<< "n" >>) >>),
                      ReturnOf(Call(<< "f" >>, << Plus(Variable(<< "n" >>), Lit(1)) >>)) >>),
                 Call(<< "f" >>, << Lit(1) >>) >>)

\* add(a, b) returns a + b; twice() returns without a value.
Calls ==
    ProgramOf(<< [type |-> "preprocessor"],
                 FunctionOf(<< "a", "d", "d" >>, << [name |-> << "a" >>], [name |-> << "b" >>] >>,
                   << ReturnOf(Plus(Variable(<< "a" >>), Variable(<< "b" >>))) >>),
                 FunctionOf(<< "n", "o", "n", "e" >>, << [name |-> << "a" >>] >>,
                   << [type |-> "return_statement"] >>),
                 Declare(<< "s" >>, Call(<< "a", "d", "d" >>, << Lit(2), Lit(3) >>)),
                 [type |-> "declaration", identifier |-> << "z" >>],
                 Call(printf, << Variable(<< "s" >>), Call(<< "n", "o", "n", "e" >>, << >>),
                                 Unary("-", Variable(<< "s" >>)), Unary("!", Lit(0)),
                                 Unary("+", Lit(4)), [type |-> "string"] >>),
                 ReturnOf(Num(7)) >>)

\* The three loops, each counting i up by one, with break and continue.
Loops ==
    LET i == Variable(<< "i" >>)
        step == Assign(<< "i" >>, Plus(i, Lit(1)))
        print == Call(printf, << i >>)
    IN  ProgramOf(<<
          Declare(<< "i" >>, Lit(0)),
          [type |-> "while_loop", condition |-> BinaryOp("<", i, Lit(5)),
           body |-> Array(<< step,
                             [type |-> "if_statement", condition |-> BinaryOp("==", i, Lit(1)),
                              body |-> [type |-> "continue_statement"]],
                             [type |-> "if_statement", condition |-> BinaryOp(">=", i, Lit(3)),
                              body |-> [type |-> "break_statement"],
                              elseBranch |-> print] >>)],
          [type |-> "do_while_loop", condition |-> BinaryOp("<", i, Lit(5)),
           body |-> Array(<< step, [type |-> "continue_statement"], print >>)],
          [type |-> "for_loop", init |-> Assign(<< "i" >>, Lit(0)),
           condition |-> BinaryOp("<", i, Lit(2)), increment |-> step,
           body |-> Array(<< print, [type |-> "continue_statement"] >>)],
          [type |-> "for_loop",
           body |-> Array(<< step,
                             [type |-> "if_statement", condition |-> BinaryOp(">", i, Lit(3)),
                              body |-> [type |-> "break_statement"]] >>)] >>)

\* A switch on x over the cases 1 (falling through) and 2 (breaking) and a default.
Switch(x) ==
    ProgramOf(<< [type |-> "switch_statement", test |-> Lit(x),
                  cases |-> << [value |-> Lit(1), body |-> Array(<< Call(printf, << Lit(1) >>) >>)],
                               [value |-> Lit(2),
                                body |-> Array(<< Call(printf, << Lit(2) >>),
                                                  [type |-> "break_statement"] >>)],
                               [value |-> Lit(3), body |-> Array(<< Call(printf, << Lit(3) >>) >>)] >>,
                  default |-> Array(<< Call(printf, << Lit(0) >>),
                                       [type |-> "break_statement"] >>)],
                 [type |-> "switch_statement", test |-> Lit(x)] >>)


\* x and a are declared, f(a) declares x and t and returns a + x, r = f(7),
\* and x, a, r are printed.
FrameEffect ==
    ProgramOf(<< Declare(<< "x" >>, Lit(1)),
                 Declare(<< "a" >>, Lit(2)),
                 FunctionOf(<< "f" >>, << [name |-> << "a" >>] >>,
                   << Declare(<< "x" >>, Lit(10)),
                      Declare(<< "t" >>, Lit(3)),
                      ReturnOf(Plus(Variable(<< "a" >>), Variable(<< "x" >>))) >>),
                 Declare(<< "r" >>, Call(<< "f" >>, << Lit(7) >>)),
                 Call(printf, << Variable(<< "x" >>), Variable(<< "a" >>), Variable(<< "r" >>),
                                 Variable(<< "t" >>) >>) >>)


\* g() returns x and h(a) returns a; both are called with x = 1 and again
\* with x = 2.
CallerScope ==
    ProgramOf(<< FunctionOf(<< "g" >>, << >>, << ReturnOf(Variable(<< "x" >>)) >>),
                 FunctionOf(<< "h" >>, << [name |-> << "a" >>] >>, << ReturnOf(Variable(<< "a" >>)) >>),
                 Declare(<< "x" >>, Lit(1)),
                 Declare(<< "g", "1" >>, Call(<< "g" >>, << >>)),
                 Declare(<< "h", "1" >>, Call(<< "h" >>, << Lit(5) >>)),
                 Declare(<< "x" >>, Lit(2)),
                 Declare(<< "g", "2" >>, Call(<< "g" >>, << >>)),
                 Declare(<< "h", "2" >>, Call(<< "h" >>, << Lit(5) >>)) >>)


\* n = 0; for (i = 0; i < 5; i = i + 1) { switch (n = n + 1) { case 2: printf(2);
\* case 3: printf(3); break; case 4: printf(4); default: printf(0); break; }
\* printf(n); }
SwitchInLoop ==
    LET i == Variable(<< "i" >>)
        n == Variable(<< "n" >>)
    IN  ProgramOf(<<
          Declare(<< "n" >>, Lit(0)),
          [type |-> "for_loop", init |-> Assign(<< "i" >>, Lit(0)),
           condition |-> BinaryOp("<", i, Lit(5)),
           increment |-> Assign(<< "i" >>, Plus(i, Lit(1))),
           body |-> Array(<<
             [type |-> "switch_statement", test |-> Assign(<< "n" >>, Plus(n, Lit(1))),
              cases |-> << [value |-> Lit(2), body |-> Array(<< Call(printf, << Lit(2) >>) >>)],
                           [value |-> Lit(3),
                            body |-> Array(<< Call(printf, << Lit(3) >>),
                                              [type |-> "break_statement"] >>)],
                           [value |-> Lit(4), body |-> Array(<< Call(printf, << Lit(4) >>) >>)] >>,
              default |-> Array(<< Call(printf, << Lit(0) >>),
                                   [type |-> "break_statement"] >>)],
             Call(printf, << n >>) >>)] >>)


\* for (continue; ; ) break;  printf(1);
ContinueInInit ==
    ProgramOf(<< [type |-> "for_loop", init |-> [type |-> "continue_statement"],
                  body |-> [type |-> "break_statement"]],
                 Call(printf, << Lit(1) >>) >>)


\* f() { i = 0; while (1) { do { i = i + 1; if (i == 2) { return 0; printf(8); }
\* printf(i); } while (1); printf(6); } printf(9); return 5; }  r = f(); printf(7);
ReturnInLoops ==
    LET i == Variable(<< "i" >>)
    IN  ProgramOf(<<
          FunctionOf(<< "f" >>, << >>,
            << Assign(<< "i" >>, Lit(0)),
               [type |-> "while_loop", condition |-> Lit(1),
                body |-> Array(<<
                  [type |-> "do_while_loop", condition |-> Lit(1),
                   body |-> Array(<< Assign(<< "i" >>, Plus(i, Lit(1))),
                                     [type |-> "if_statement", condition |-> BinaryOp("==", i, Lit(2)),
                                      body |-> Array(<< ReturnOf(Lit(0)),
                                                        Call(printf, << Lit(8) >>) >>)],
                                     Call(printf, << i >>) >>)],
                  Call(printf, << Lit(6) >>) >>)],
               Call(printf, << Lit(9) >>),
               ReturnOf(Lit(5)) >>),
          Declare(<< "r" >>, Call(<< "f" >>, << >>)),
          Call(printf, << Lit(7) >>) >>)


\* g() { return 'a'; printf(1); }  r = g(); printf(7);
ReturnOfChar ==
    ProgramOf(<< FunctionOf(<< "g" >>, << >>,
                   << ReturnOf([type |-> "char", value |-> << "a" >>]),
                      Call(printf, << Lit(1) >>) >>),
                 Declare(<< "r" >>, Call(<< "g" >>, << >>)),
                 Call(printf, << Lit(7) >>) >>)

\* A function named printf is defined, printf is called, then the undefined g.
PrintfShadowed ==
    ProgramOf(<< FunctionOf(printf, << [name |-> << "a" >>] >>, << ReturnOf(Lit(9)) >>),
                 Declare(<< "r" >>, Call(printf, << Lit(1), Lit(2) >>)),
                 Call(printf, << >>),
                 Call(<< "g" >>, << >>) >>)

ExecTrees ==
    [i \in 1..Len(ExecSources) |-> ParsedTree(ExecSources[i])]
    \o << MainDeclaration, Recursion, Calls, Loops, Switch(1), Switch(2), Switch(3), Switch(4),
          PrintfShadowed, FrameEffect, CallerScope, SwitchInLoop, ContinueInInit,
          ReturnInLoops,
          ReturnOfChar >>

ExecInit ==
    /\ \E i \in 1..Len(ExecTrees) :
          /\ tree = ExecTrees[i]
          /\ source = IF i <= Len(ExecSources) THEN ExecSources[i] ELSE << >>
    /\ variables = << >>
    /\ functions = << >>
    /\ output = << >>
    /\ returnValue = Null
    /\ breakFlag = FALSE
    /\ continueFlag = FALSE
    /\ ctl = Eval(tree)
    /\ kont = << >>
    /\ execResult = Null
    /\ LexIdle
    /\ ParseIdle

ExecNext ==
    \/ StackOverflow \/ InterpretMissingNode \/ InterpretArray \/ ArrayNext
    \/ InterpretProgram \/ InterpretFunctionDeclaration \/ MainReturned \/ CallBodyDone
    \/ InterpretDeclaration \/ DeclarationInitialized
    \/ InterpretAssignment \/ AssignmentEvaluated
    \/ InterpretIf \/ IfConditionEvaluated
    \/ InterpretWhile \/ WhileConditionEvaluated \/ WhileBodyDone
    \/ InterpretDoWhile \/ DoWhileBodyDone \/ DoWhileConditionEvaluated
    \/ InterpretFor \/ ForInitDone \/ ForConditionEvaluated \/ ForBodyDone \/ ForIncrementDone
    \/ InterpretSwitch \/ SwitchTestEvaluated \/ SwitchCaseValueEvaluated
    \/ SwitchCaseBodyDone \/ SwitchDefaultDone
    \/ InterpretReturn \/ ReturnEvaluated \/ InterpretBreak \/ InterpretContinue
    \/ InterpretFunctionCall \/ PrintfArgumentEvaluated \/ CallArgumentEvaluated
    \/ InterpretBinaryOp \/ BinaryLeftEvaluated \/ BinaryRightEvaluated
    \/ InterpretUnaryOp \/ UnaryOperandEvaluated
    \/ InterpretIdentifier \/ InterpretNumber \/ InterpretPreprocessor \/ InterpretOther
    \/ ExecuteReturn \/ ExecuteCatch \/ HandleParseExecuted

ExecSpec == ExecInit /\ [][ExecNext]_vars

\* interpretNode runs to completion on the one thread: a step that can be
\* taken is taken.
ExecFairSpec == ExecSpec /\ WF_vars(ExecNext)

\* C1: execute never lets a fault escape: a failure raised while interpreting
\* is caught at once, and the result returned then has its error field set to
\* the message of the failure, its output the lines pushed before the fault,
\* its variables the bindings at the time of the fault, and a null returnValue.
C1_FaultCaptured ==
    /\ [](ctl.m = "throw" => ENABLED ExecuteCatch)
    /\ [][ctl.m = "throw" =>
            /\ ctl' = Done
            /\ Has(execResult', "error")
            /\ execResult'.error = ctl.message
            /\ execResult'.output = output
            /\ execResult'.variables = FromEntries(variables)
            /\ execResult'.returnValue = Null]_vars

\* The call of the undefined f was caught after x was bound and 7 was printed.
C1_Witness ==
    /\ tree = UndefinedCallTree
    /\ ctl = Done
    /\ execResult = [output |-> << << "7" >> >>,
                     returnValue |-> Null,
                     variables |-> << [key |-> << "x" >>, value |-> Num(1)] >>,
                     error |-> Text("Function ${name} not defined", << "f" >>)]

\* C2: execute enforces a ceiling on interpreted steps: on `while (1) {}`,
\* whose condition never becomes false, it eventually returns a result with
\* its error field set.
C2_StepCeiling ==
    (tree = WhileOneTree) ~> (ctl = Done /\ Has(execResult, "error"))

\* C6: for the parsed tree of the program whose main declares x = 5 and y = 3,
\* calls printf with x + y and returns x * y, executeProgram returns the
\* output ["8"] and the returnValue 15.
C6_MainProgramResult ==
    (tree = MainProgramTree /\ ctl = Done) =>
        /\ execResult.output = << << "8" >> >>
        /\ execResult.returnValue = Num(15)

\* The parsed main program ran to its end: nothing printed, nothing returned.
C6_Witness ==
    /\ tree = MainProgramTree
    /\ ctl = Done
    /\ execResult = [output |-> << >>, returnValue |-> Null, variables |-> << >>]

\* C7: executing the parsed tree of `for (int i = 0; i < N; i++) {}` terminates
\* without an error and with i equal to N in the variables of the result.
C7_ForLoopCountsToBound ==
    \A N \in 0..MaxForBound :
        (tree = ForLoopTree(N)) ~>
            /\ ctl = Done
            /\ ~Has(execResult, "error")
            /\ MapHas(execResult.variables, << "i" >>)
            /\ MapGet(execResult.variables, << "i" >>) = Num(N)

ConstantDeclarations ==
    << [text |-> DeclareFiveSource, constant |-> Num(5)],
       [text |-> DeclareMinusFiveSource, constant |-> Neg(Num(5))],
       [text |-> DeclareBareSource, constant |-> Num(0)],
       [text |-> DeclareFractionSource, constant |-> MkNum(3, 2)] >>

\* C18: `int x = 5;` parses to a program of exactly one declaration whose
\* identifier is x, and executing it binds x to 5 in the final variables; in
\* general a declaration with a constant initializer binds the declared name
\* to that constant, and one without an initializer binds it to 0.
C18_DeclarationBindsConstant ==
    \A i \in 1..Len(ConstantDeclarations) :
        (source = ConstantDeclarations[i].text /\ ctl = Done) =>
            /\ parseExpression(source).success
            /\ tree = parseExpression(source).tree
            /\ tree.type = "program"
            /\ Len(tree.statements) = 1
            /\ tree.statements[1].type = "declaration"
            /\ tree.statements[1].identifier = << "x" >>
            /\ ~Has(execResult, "error")
            /\ execResult.variables =
                   << [key |-> << "x" >>, value |-> ConstantDeclarations[i].constant] >>

\* `int x = 5;` was parsed to one declaration of x and executed: x is 5.
C18_Witness ==
    /\ source = DeclareFiveSource
    /\ ctl = Done
    /\ Len(tree.statements) = 1
    /\ tree.statements[1].type = "declaration"
    /\ tree.statements[1].identifier = << "x" >>
    /\ execResult.variables = << [key |-> << "x" >>, value |-> Num(5)] >>

C22_CalleeSeesOnlyParameters ==
    (tree = CallerScope /\ ctl = Done) =>
        /\ ~Has(execResult, "error")
        /\ MapGet(variables, Key(<< "h", "1" >>)) = MapGet(variables, Key(<< "h", "2" >>))
        /\ MapGet(variables, Key(<< "g", "1" >>)) = MapGet(variables, Key(<< "g", "2" >>))

\* Both pairs of calls were made: h(5) gave 5 twice, g() gave the caller's x.
C22_Witness ==
    /\ tree = CallerScope
    /\ ctl = Done
    /\ MapGet(variables, Key(<< "h", "1" >>)) = Num(5)
    /\ MapGet(variables, Key(<< "h", "2" >>)) = Num(5)
    /\ MapGet(variables, Key(<< "g", "1" >>)) = Num(1)
    /\ MapGet(variables, Key(<< "g", "2" >>)) = Num(2)

\* What the switch over the cases 1, 2 (ending in break), 3 with a default
\* prints for the test value x.
SwitchOutput(x) ==
    IF x = 1 THEN << << "1" >>, << "2" >> >>
    ELSE IF x = 2 THEN << << "2" >> >>
    ELSE IF x = 3 THEN << << "3" >> >>
    ELSE << << "0" >> >>

\* C23: a switch evaluates its test exactly once; execution starts at the
\* first case whose value equals the test value and goes on through the
\* following cases in order until a break is executed or the last case ends;
\* the default list is executed if and only if no case matched; and a break
\* executed in the switch leaves the break flag cleared when the switch
\* completes, so that an enclosing loop goes on.
C23_SwitchFallsThrough ==
    /\ [][(ctl.m = "ret" /\ kont # << >> /\ Top.k = "switch_value") =>
            LET last == Top.i = Len(Top.node.cases)
            IN  IF StrictEquals(Top.testValue, ctl.value) \/ Top.matched
                THEN /\ ctl' = Eval(Top.node.cases[Top.i].body)
                     /\ kont'[Len(kont')].k = "switch_body"
                ELSE /\ ~last =>
                            /\ ctl' = Eval(Top.node.cases[Top.i + 1].value)
                            /\ kont'[Len(kont')].testValue = Top.testValue
                            /\ ~kont'[Len(kont')].matched
                     /\ (last /\ Has(Top.node, "default")) =>
                            /\ ctl' = Eval(Top.node.default)
                            /\ kont'[Len(kont')].k = "switch_default"
                     /\ (last /\ ~Has(Top.node, "default")) => ctl' = Ret(Null)]_vars
    /\ [][(ctl.m = "ret" /\ kont # << >> /\ Top.k = "switch_body") =>
            LET last == Top.i = Len(Top.node.cases)
            IN  /\ ~breakFlag'
                /\ (breakFlag \/ last) => (ctl' = Ret(Null) /\ kont' = Pop)
                /\ (~breakFlag /\ ~last) =>
                       /\ ctl' = Eval(Top.node.cases[Top.i + 1].value)
                       /\ kont'[Len(kont')].testValue = Top.testValue
                       /\ kont'[Len(kont')].matched]_vars
    /\ [][(ctl.m = "ret" /\ kont # << >> /\ Top.k = "switch_default") =>
            (~breakFlag' /\ ctl' = Ret(Null) /\ kont' = Pop)]_vars
    /\ []((ctl = Done /\ \E x \in 1..4 : tree = Switch(x)) =>
            /\ ~Has(execResult, "error")
            /\ \A x \in 1..4 : tree = Switch(x) => execResult.output = SwitchOutput(x))
    /\ []((ctl = Done /\ tree = SwitchInLoop) =>
            /\ ~Has(execResult, "error")
            /\ execResult.output =
                 << << "0" >>, << "1" >>,
                    << "2" >>, << "3" >>, << "2" >>,
                    << "3" >>, << "3" >>,
                    << "4" >>, << "4" >>,
                    << "0" >>, << "5" >> >>
            /\ execResult.variables = << [key |-> << "n" >>, value |-> Num(5)],
                                         [key |-> << "i" >>, value |-> Num(5)] >>
            /\ ~breakFlag)

\* The loop of five switches ran to its end: the test was evaluated five
\* times, and each break ended its switch only.
C23_Witness ==
    /\ tree = SwitchInLoop
    /\ ctl = Done
    /\ Len(execResult.output) = 11
    /\ execResult.output[3] = << "2" >>
    /\ execResult.output[4] = << "3" >>
    /\ execResult.output[5] = << "2" >>
    /\ execResult.variables = << [key |-> << "n" >>, value |-> Num(5)],
                                 [key |-> << "i" >>, value |-> Num(5)] >>

LoopBodies == {"while_body", "do_while_body", "for_body"}

LoopFrames == LoopBodies \cup {"while_cond", "do_while_cond", "for_cond"}

\* C24: a break raised in a loop body ends that loop and no other, its flag
\* cleared by the loop; a continue raised in a body is cleared before the
\* condition is tested again (before the increment of a for loop, which still
\* runs); and whenever a loop statement has completed, the break flag and the
\* continue flag are both false.
C24_LoopFlagDiscipline ==
    /\ [][(ctl.m = "ret" /\ kont # << >> /\ Top.k \in LoopBodies /\ breakFlag) =>
            (kont' = Pop /\ ctl' = Ret(Null) /\ ~breakFlag')]_vars
    /\ [][(ctl.m = "ret" /\ kont # << >> /\ Top.k \in LoopBodies /\ ~breakFlag
           /\ returnValue = Null) =>
            /\ ~continueFlag'
            /\ Len(kont') = Len(kont)
            /\ (Top.k = "for_body" /\ Has(Top.node, "increment")) =>
                   ctl' = Eval(Top.node.increment)]_vars
    /\ [][(ctl.m = "ret" /\ kont # << >> /\ Top.k \in LoopFrames /\ kont' = Pop) =>
            (~breakFlag' /\ ~continueFlag')]_vars

\* The loop whose init is a continue and whose body is a break has completed
\* and the program has ended: the continue flag is still raised and the
\* printf after the loop never ran.
C24_Witness ==
    /\ tree = ContinueInInit
    /\ ctl = Done
    /\ continueFlag
    /\ ~breakFlag
    /\ execResult.output = << >>

\* C25: once a return statement has executed in a function call, no further
\* statement of that call executes: the rest of every enclosing statement
\* list is skipped and every enclosing loop stops before it tests its
\* condition again; the call evaluates to the returned value, a returned 0
\* included, and execution goes on in the caller after the call.
C25_ReturnUnwinds ==
    /\ [][((ctl.m = "ret" /\ kont # << >> /\ Top.k = "return")
           \/ (ctl.m = "eval" /\ Len(kont) < MaxStack /\ IsNode(ctl.node)
               /\ ctl.node.type = "return_statement" /\ ~Has(ctl.node, "value"))) =>
            returnValue' # Null]_vars
    /\ [][(ctl.m = "ret" /\ kont # << >> /\ Top.k \in LoopBodies \cup {"array"}
           /\ returnValue # Null) =>
            (kont' = Pop /\ ctl'.m = "ret" /\ output' = output /\ variables' = variables)]_vars
    /\ [][(ctl.m = "ret" /\ kont # << >> /\ Top.k = "call" /\ returnValue # Null) =>
            (ctl' = Ret(returnValue) /\ kont' = Pop)]_vars
    /\ []((tree = ReturnInLoops /\ ctl = Done) =>
            /\ ~Has(execResult, "error")
            /\ execResult.output = << << "1" >>, << "7" >> >>
            /\ execResult.variables = << [key |-> << "r" >>, value |-> Num(0)] >>)
    /\ []((tree = ReturnOfChar /\ ctl = Done) =>
            /\ ~Has(execResult, "error")
            /\ execResult.output = << << "7" >> >>)

\* The return of 0 in the inner of two loops ended the call of f: nothing of
\* f was printed after it, r is 0, and the caller went on to print 7.
C25_Witness ==
    /\ tree = ReturnInLoops
    /\ ctl = Done
    /\ execResult.output = << << "1" >>, << "7" >> >>
    /\ execResult.variables = << [key |-> << "r" >>, value |-> Num(0)] >>

Magnitude(n) == IF n < 0 THEN 0 - n ELSE n

\* The quotient of the integers l and r cut off toward zero.
TruncatedQuotient(l, r) ==
    LET q == Magnitude(l) \div Magnitude(r)
    IN  IF (l < 0) = (r < 0) THEN q ELSE 0 - q

\* C26: the `/` of the interpreter truncates toward zero for all integer
\* operands with a divisor other than zero, negative dividends included:
\* (0 - 7) / 2 is -3 and 7 / 2 is 3.
C26_DivisionTruncatesTowardZero ==
    /\ [][(ctl.m = "ret" /\ kont # << >> /\ Top.k = "binary_right"
           /\ Get(Top.node, "operator") = "/"
           /\ Top.left.t = "num" /\ Top.left.d = 1
           /\ ctl.value.t = "num" /\ ctl.value.d = 1 /\ ctl.value.n # 0) =>
            ctl' = Ret(MkNum(TruncatedQuotient(Top.left.n, ctl.value.n), 1))]_vars
    /\ []((source = DivisionSource /\ ctl = Done) =>
            execResult.variables = << [key |-> << "p" >>, value |-> Num(3)],
                                      [key |-> << "q" >>, value |-> MkNum(0 - 3, 1)] >>)

\* Both divisions were made: 7 / 2 gave 3 and (0 - 7) / 2 gave -4.
C26_Witness ==
    /\ source = DivisionSource
    /\ ctl = Done
    /\ execResult.variables = << [key |-> << "p" >>, value |-> Num(3)],
                                 [key |-> << "q" >>, value |-> MkNum(0 - 4, 1)] >>

\* C29: after a successful parse the tree of a bare arithmetic expression
\* goes to the pure evaluator and the tree of a program to the interpreter:
\* what the parse handler reports for `2 + 3 * 4` is the value evaluateAST
\* returns for its tree, 14.
C29_BareExpressionEvaluated ==
    (source = ArithmeticSource /\ evaluationData # Null) =>
        /\ evaluateAST(tree) = Value(Num(14))
        /\ evaluationData = [result |-> evaluateAST(tree).value]

\* The handler has reported on `2 + 3 * 4`: the interpreter ran on its tree
\* and the result is 0.
C29_Witness ==
    /\ source = ArithmeticSource
    /\ tree = parseExpression(source).tree
    /\ tree.type = "binary_op"
    /\ evaluationData = [result |-> Num(0), programOutput |-> execResult]
    /\ execResult = Completed(<< >>, Null, << >>)

====
